---- MODULE Spec2Model ----
(***************************************************************************)
(* Task tracker and bulk-send workers of eduai_email (src/app.py,          *)
(* src/mailer/utils.py, src/mailer/db.py).                                 *)
(*                                                                         *)
(* The model has one request thread (the Flask handler that is currently   *)
(* running) and one worker thread per created task.  Every acquisition and *)
(* release of tasks_lock is a step of its own, and the external calls      *)
(* (send, log_entry, render_template) are entered in one step and left in  *)
(* another, so that "inside the call" is a state of the model.             *)
(*                                                                         *)
(* Two workers share nothing but tasks_lock and the log table: a worker    *)
(* reads and writes tasks[task_id] of its own task only.  The properties   *)
(* of one task are therefore checked on a tasks dict that holds one task   *)
(* id, with the request thread as the second user of the lock.  The        *)
(* actions are written for any set of ids (TaskIds is the domain of        *)
(* tasks).                                                                 *)
(***************************************************************************)
EXTENDS Integers, Sequences, FiniteSets, TLC

\* ------------------------------------------------------------------ bounds
MaxRecipients == 2
\* Recipients of a greeting task when two tasks run at once
MaxConcurrentRecipients == 1

\* Longest generic HTML and longest recipient name given to the personalizer
MaxHtmlLen == 5
MaxNameLen == 2
\* Longest body fragment given to the custom preview
MaxFragLen == 4
\* Most words of a text given to the body validator
MaxWords == 6
\* Most rows of an uploaded recipients table
MaxRows == 2
\* Most body cells of a skeleton and longest fragment given to the composer
MaxBodyCells == 2
MaxFragToks == 2
\* Longest page given to the CSS inliner
MaxPageLen == 2
\* log_entry calls in all, and the largest limit handed to get_logs
MaxAppends == 3
MaxLimit == 2
\* runs of equal characters in the text handed to the stylizer, and the
\* lengths a run may have besides 1
MaxRuns == 3
RunShort == 119
RunLong == 120
\* pieces of a preview HTML
MaxPreviewLen == 3
\* recipients handed from the preview page to the confirm request
MaxHandOff == 2
\* recipients of a task that carries attachments
MaxAttachRecipients == 2

\* --------------------------------------------------------- program constants
min_chars == 30
min_words == 5
EducatorLen == 8
\* stylize_marketing_body: the limits of the problem statement, the length
\* of the ' (dash) for ' text and of the product name 'Class Tom'
max_problem == 240
cut_at == 237
fallback_chars == 160
ForLen == 7
ProductNameLen == 9

VARIABLES
    tasks,        \* app.tasks: task id -> {status,total,sent,failed,error}
    tasks_lock,   \* app.tasks_lock: who holds it
    wk,           \* per task: the worker thread's locals and position
    req,          \* the request thread: handler, position, what it read
    logs,         \* mailer.db: the rows of table logs, oldest first
    hist,         \* per task: what the worker did for each recipient so far
    creds,        \* SMTP_SERVER, SMTP_EMAIL and SMTP_PASSWORD are all set
    call          \* one call of a helper function: its arguments, then its result

vars == <<tasks, tasks_lock, wk, req, logs, hist, creds, call>>

\* The ids uuid.uuid4() can return
TaskIds == DOMAIN tasks

Kinds == {"generic", "custom", "greeting", "product"}

\* tasks_lock holders
Free == [who |-> "none", t |-> ""]
ByWorker(t) == [who |-> "worker", t |-> t]
ByRequest == [who |-> "request", t |-> ""]

\* A key that is not in the tasks dict
NoTask == [status |-> "none", total |-> 0, sent |-> 0, failed |-> 0, error |-> "none"]

\* An HTML string, as far as has_meaningful_body can tell strings apart: the
\* text that is left after the tags and the boilerplate are removed and the
\* whitespace is collapsed (its length, its words, whether it has a letter or
\* digit), and whether the greeting marker occurs in it (the marker itself is
\* not counted in chars and words).
NoHtml == [chars |-> 0, words |-> 0, alnum |-> FALSE, marker |-> FALSE]
Htmls == { NoHtml,
           [chars |-> 23, words |-> 4, alnum |-> TRUE, marker |-> TRUE],
           [chars |-> 40, words |-> 6, alnum |-> TRUE, marker |-> FALSE] }

\* Lengths of the recipient names the worker may meet (0: no name)
NameLens == {0, 2}

\* The validator with the length test off by one
has_meaningful_body_strict(h) ==
    IF h = NoHtml THEN FALSE
    ELSE IF h.chars <= min_chars THEN FALSE
    ELSE IF h.words < min_words THEN FALSE
    ELSE IF ~h.alnum THEN FALSE
    ELSE TRUE

has_meaningful_body(h) ==
    IF h = NoHtml THEN FALSE
    ELSE IF h.chars < min_chars THEN FALSE
    ELSE IF h.words < min_words THEN FALSE
    ELSE IF ~h.alnum THEN FALSE
    ELSE TRUE

\* name = r.get('name') or 'Educator'; final_html = generic_html.replace(marker, name)
Personalize(generic, nameLen) ==
    LET len == IF nameLen = 0 THEN EducatorLen ELSE nameLen
    IN  IF generic.marker
        THEN [chars |-> generic.chars + len, words |-> generic.words + 1,
              alnum |-> TRUE, marker |-> FALSE]
        ELSE generic

\* exc: the exception the outer `except Exception` of the worker caught;
\* cleanup: how the deletion of the attachments after the loop went
IdleWorker == [kind |-> "none", n |-> 0, i |-> 0, pc |-> "none",
               pend |-> "none", gen |-> NoHtml, exc |-> "none", cleanup |-> "none"]
IdleReq == [pc |-> "idle", op |-> "none", t |-> "", kind |-> "none", n |-> 0,
            resp |-> "none", unlocked |-> FALSE]

\* No helper function is being examined
NoCall == [fn |-> "none"]

Init ==
    /\ tasks = [t \in {"t1"} |-> NoTask]
    /\ tasks_lock = Free
    /\ wk = [t \in {"t1"} |-> IdleWorker]
    /\ req = IdleReq
    /\ logs = << >>
    /\ hist = [t \in {"t1"} |-> << >>]
    /\ creds \in BOOLEAN
    /\ call = NoCall

\* ------------------------------------------------------- the request thread
\* An id generator that may hand out the id of an existing task
AnyIds == TaskIds

\* uuid.uuid4(): an id that no task has
FreshIds == { t \in TaskIds : tasks[t].status = "none" }

\* The part of a *_start_send handler before the task is created: the early
\* returns (no recipients, fragment rejected, dry run), else go on to create.
StartRequest(kind, n, frag, dry) ==
    /\ req.pc = "idle"
    /\ FreshIds # {}
    /\ IF n = 0
       THEN req' = [IdleReq EXCEPT !.resp = "no_recipients"]
       ELSE IF kind = "custom" /\ ~has_meaningful_body(frag)
       THEN req' = [IdleReq EXCEPT !.resp = "blocked"]
       ELSE IF dry
       THEN req' = [IdleReq EXCEPT !.resp = "dry_run"]
       ELSE req' = [IdleReq EXCEPT !.pc = "create", !.op = "start",
                                   !.kind = kind, !.n = n]
    /\ UNCHANGED <<tasks, tasks_lock, wk, logs, hist, creds, call>>

start_send == \E n \in 0..MaxRecipients, dry \in BOOLEAN :
    StartRequest("generic", n, NoHtml, dry)

custom_start_send == \E n \in 0..MaxRecipients, frag \in Htmls, dry \in BOOLEAN :
    StartRequest("custom", n, frag, dry)

greetings_start_send == \E n \in 0..MaxRecipients, dry \in BOOLEAN :
    StartRequest("greeting", n, NoHtml, dry)

product_start_send == \E n \in 0..MaxRecipients, dry \in BOOLEAN :
    StartRequest("product", n, NoHtml, dry)

\* with tasks_lock:   (entered by the request thread)
RequestLock ==
    /\ req.pc \in {"create", "get"}
    /\ tasks_lock = Free
    /\ tasks_lock' = ByRequest
    /\ req' = [req EXCEPT !.pc = IF req.pc = "create" THEN "creating" ELSE "locked"]
    /\ UNCHANGED <<tasks, wk, logs, hist, creds, call>>

\* tasks[task_id] = {'status': 'pending', ...}; leave the lock; thread.start()
CreateTask ==
    /\ req.pc = "creating"
    /\ tasks_lock = ByRequest
    /\ \E t \in FreshIds :
        /\ tasks' = [tasks EXCEPT ![t] = [status |-> "pending", total |-> req.n,
                                          sent |-> 0, failed |-> 0, error |-> "none"]]
        /\ wk' = [wk EXCEPT ![t] = [IdleWorker EXCEPT !.kind = req.kind, !.n = req.n,
                                                      !.pc = "start"]]
        /\ req' = [IdleReq EXCEPT !.resp = "enqueued", !.t = t]
    /\ tasks_lock' = Free
    /\ UNCHANGED <<logs, hist, creds, call>>

\* /send: send_bulk_emails raises at once when the settings are missing, the
\* handler flashes the error; no task is involved.
send ==
    /\ req.pc = "idle"
    /\ req' = [IdleReq EXCEPT !.resp = IF creds THEN "result" ELSE "config_error"]
    /\ UNCHANGED <<tasks, tasks_lock, wk, logs, hist, creds, call>>

\* A handler that looks a task up: progress, status, final, task_debug
LookUp(op, t) ==
    /\ req.pc = "idle"
    /\ req' = [IdleReq EXCEPT !.pc = "get", !.op = op, !.t = t]
    /\ UNCHANGED <<tasks, tasks_lock, wk, logs, hist, creds, call>>

\* task = tasks.get(task_id) (and, in status, the reads of the counters and
\* the status), and the lock is left: the handler goes on with the reference
\* it got (pc "render"), or answers "not found".
GetAndRelease(op) ==
    /\ req.pc = "locked" /\ req.op = op
    /\ tasks_lock = ByRequest
    /\ tasks_lock' = Free
    /\ req' = IF tasks[req.t].status = "none"
              THEN [IdleReq EXCEPT !.resp = "not_found"]
              ELSE [req EXCEPT !.pc = "render"]
    /\ UNCHANGED <<tasks, wk, logs, hist, creds, call>>

\* progress and final read total, sent and failed of the task after they
\* left the lock
ReadUnlocked(op, resp) ==
    /\ req.pc = "render" /\ req.op = op
    /\ req' = [IdleReq EXCEPT !.resp = resp, !.unlocked = (tasks_lock # ByRequest)]
    /\ UNCHANGED <<tasks, tasks_lock, wk, logs, hist, creds, call>>

progress ==
    \/ \E t \in TaskIds : LookUp("progress", t)
    \/ GetAndRelease("progress")
    \/ ReadUnlocked("progress", "progress_page")

\* status reads sent, failed, total and status inside the lock; after the
\* lock it reads only the error trace
status ==
    \/ \E t \in TaskIds : LookUp("status", t)
    \/ GetAndRelease("status")
    \/ /\ req.pc = "render" /\ req.op = "status"
       /\ req' = [IdleReq EXCEPT !.resp = "status_json"]
       /\ UNCHANGED <<tasks, tasks_lock, wk, logs, hist, creds, call>>

final ==
    \/ \E t \in TaskIds : LookUp("final", t)
    \/ GetAndRelease("final")
    \/ ReadUnlocked("final", "final_page")

\* task_debug hands the task to the template; which fields the template reads
\* is outside src/, the model counts no read for it.
task_debug ==
    \/ \E t \in TaskIds : LookUp("task_debug", t)
    \/ GetAndRelease("task_debug")
    \/ /\ req.pc = "render" /\ req.op = "task_debug"
       /\ req' = [IdleReq EXCEPT !.resp = "debug_page"]
       /\ UNCHANGED <<tasks, tasks_lock, wk, logs, hist, creds, call>>

\* ------------------------------------------------------- the worker threads
\* What the worker did for the recipient at position r of the list: skipped
\* or called send (what), the verdict of has_meaningful_body it had before
\* the send (checked), the result of the send (res), how often it added one
\* to sent and to failed (incS, incF), whether a log_entry call raised
Entry(r, what, checked) == [r |-> r, what |-> what, res |-> "none",
                            checked |-> checked, incS |-> 0, incF |-> 0,
                            logRaised |-> FALSE]

SetLast(h, f, v) == [h EXCEPT ![Len(h)] = [@ EXCEPT ![f] = v]]
BumpLast(h, f) == [h EXCEPT ![Len(h)] = [@ EXCEPT ![f] = @ + 1]]

\* with tasks_lock:   (entered by a worker)
WorkerLock(t) ==
    /\ wk[t].pc \in {"start", "count", "h_count", "finish", "except"}
    /\ tasks_lock = Free
    /\ tasks_lock' = ByWorker(t)
    /\ wk' = [wk EXCEPT ![t].pc = CASE wk[t].pc = "start" -> "start_locked"
                                    [] wk[t].pc = "count" -> "count_locked"
                                    [] wk[t].pc = "h_count" -> "h_count_locked"
                                    [] wk[t].pc = "finish" -> "finish_locked"
                                    [] wk[t].pc = "except" -> "except_locked"]
    /\ UNCHANGED <<tasks, req, logs, hist, creds, call>>

\* status = 'running', total = len(recipients), sent = 0, failed = 0
WorkerStart(t) ==
    /\ wk[t].pc = "start_locked"
    /\ tasks_lock = ByWorker(t)
    /\ tasks' = [tasks EXCEPT ![t].status = "running", ![t].total = wk[t].n,
                              ![t].sent = 0, ![t].failed = 0]
    /\ tasks_lock' = Free
    /\ wk' = [wk EXCEPT ![t].pc = "prep", ![t].i = 1]
    /\ UNCHANGED <<req, logs, hist, creds, call>>

\* Variant of Count: the worker does not leave the lock
CountKeepsLock(t, next) ==
    /\ wk[t].pc = "count_locked"
    /\ tasks_lock = ByWorker(t)
    /\ IF wk[t].pend = "sent"
       THEN /\ tasks' = [tasks EXCEPT ![t].sent = @ + 1]
            /\ hist' = [hist EXCEPT ![t] = BumpLast(@, "incS")]
       ELSE /\ tasks' = [tasks EXCEPT ![t].failed = @ + 1]
            /\ hist' = [hist EXCEPT ![t] = BumpLast(@, "incF")]
    /\ wk' = [wk EXCEPT ![t].pc = next]
    /\ UNCHANGED <<tasks_lock, req, logs, creds, call>>

\* tasks[task_id]['sent'] += 1  or  tasks[task_id]['failed'] += 1, then the
\* worker leaves the lock and goes on at pc next
Count(t, next) ==
    /\ wk[t].pc = "count_locked"
    /\ tasks_lock = ByWorker(t)
    /\ IF wk[t].pend = "sent"
       THEN /\ tasks' = [tasks EXCEPT ![t].sent = @ + 1]
            /\ hist' = [hist EXCEPT ![t] = BumpLast(@, "incS")]
       ELSE /\ tasks' = [tasks EXCEPT ![t].failed = @ + 1]
            /\ hist' = [hist EXCEPT ![t] = BumpLast(@, "incF")]
    /\ tasks_lock' = Free
    /\ wk' = [wk EXCEPT ![t].pc = next]
    /\ UNCHANGED <<req, logs, creds, call>>

\* Variant of NextRecipient: the loop does not move on to the next recipient
SameRecipient(w) == [w EXCEPT !.pc = "loop", !.pend = "none"]

\* End of one pass through the loop body: time.sleep(0.1), next recipient
NextRecipient(w) == [w EXCEPT !.pc = "loop", !.i = @ + 1, !.pend = "none"]

\* Variant of WorkerDone: done is written before the cleanup, which then
\* raises into the outer except clause
WorkerDoneBeforeCleanup(t) ==
    /\ wk[t].pc = "finish_locked"
    /\ tasks_lock = ByWorker(t)
    /\ tasks' = [tasks EXCEPT ![t].status = "done"]
    /\ tasks_lock' = Free
    /\ wk' = [wk EXCEPT ![t].pc = "except", ![t].exc = "trace: cleanup"]
    /\ UNCHANGED <<req, logs, hist, creds, call>>

\* tasks[task_id]['status'] = 'done'
WorkerDone(t) ==
    /\ wk[t].pc = "finish_locked"
    /\ tasks_lock = ByWorker(t)
    /\ tasks' = [tasks EXCEPT ![t].status = "done"]
    /\ tasks_lock' = Free
    /\ wk' = [wk EXCEPT ![t].pc = "exit"]
    /\ UNCHANGED <<req, logs, hist, creds, call>>

\* Variant of WorkerError: the handler sits inside the loop, the worker goes
\* on with the next recipient after it
WorkerErrorResume(t) ==
    /\ wk[t].pc = "except_locked"
    /\ tasks_lock = ByWorker(t)
    /\ tasks' = [tasks EXCEPT ![t].status = "error", ![t].error = wk[t].exc]
    /\ tasks_lock' = Free
    /\ wk' = [wk EXCEPT ![t].pc = "loop", ![t].i = @ + 1]
    /\ UNCHANGED <<req, logs, hist, creds, call>>

\* except Exception: status = 'error', error = traceback.format_exc()
WorkerError(t) ==
    /\ wk[t].pc = "except_locked"
    /\ tasks_lock = ByWorker(t)
    /\ tasks' = [tasks EXCEPT ![t].status = "error", ![t].error = wk[t].exc]
    /\ tasks_lock' = Free
    /\ wk' = [wk EXCEPT ![t].pc = "exit"]
    /\ UNCHANGED <<req, logs, hist, creds, call>>

\* mailer.utils.send_email_with_attachments returns (True, None) or
\* (False, error); it catches every exception.  Without the SMTP settings the
\* connection or the login fails.
SendReturn(t) ==
    /\ wk[t].pc = "send"
    /\ \E ok \in BOOLEAN :
        /\ ok => creds
        /\ hist' = [hist EXCEPT ![t] = SetLast(@, "res", IF ok THEN "ok" ELSE "fail")]
        /\ wk' = [wk EXCEPT ![t].pc = "count",
                            ![t].pend = IF ok THEN "sent" ELSE "failed"]
    /\ UNCHANGED <<tasks, tasks_lock, req, logs, creds, call>>

\* mailer.db.log_entry: one row is inserted, or the call raises
LogRow(t, st) == [task |-> t, i |-> wk[t].i, status |-> st]

\* Variant of Cleanup: a deletion that fails is not swallowed, it reaches the
\* outer except clause
CleanupRaises(t) ==
    /\ wk[t].pc = "cleanup"
    /\ \/ wk' = [wk EXCEPT ![t].pc = "finish", ![t].cleanup = "deleted"]
       \/ wk' = [wk EXCEPT ![t].pc = "except", ![t].cleanup = "failed",
                           ![t].exc = "trace: cleanup"]
    /\ UNCHANGED <<tasks, tasks_lock, req, logs, hist, creds, call>>

\* cleanup of the attachments after the loop: os.remove and shutil.rmtree
\* for every path, each inside try/except pass; the files are deleted or a
\* deletion fails, and the worker goes on either way
Cleanup(t) ==
    /\ wk[t].pc = "cleanup"
    /\ \E outcome \in {"deleted", "failed"} :
        wk' = [wk EXCEPT ![t].pc = "finish", ![t].cleanup = outcome]
    /\ UNCHANGED <<tasks, tasks_lock, req, logs, hist, creds, call>>

\* ---------------------------------------------------------------- send_task
\* The settings check and the SMTP connection before the loop
GenericPrep(t) ==
    /\ wk[t].pc = "prep"
    /\ \E connected \in BOOLEAN :
        /\ connected => creds
        /\ wk' = IF connected
                 THEN [wk EXCEPT ![t].pc = "loop"]
                 ELSE [wk EXCEPT ![t].pc = "except",
                                 ![t].exc = IF creds THEN "trace: smtp" ELSE "trace: settings"]
    /\ UNCHANGED <<tasks, tasks_lock, req, logs, hist, creds, call>>

\* for r in recipients: build the message and call smtp.send_message; after
\* the last one the `with smtplib.SMTP(...)` block is left (QUIT), which may
\* raise as every SMTP command may
GenericLoop(t) ==
    /\ wk[t].pc = "loop"
    /\ IF wk[t].i > wk[t].n
       THEN /\ \/ wk' = [wk EXCEPT ![t].pc = "finish"]
               \/ wk' = [wk EXCEPT ![t].pc = "except", ![t].exc = "trace: smtp"]
            /\ hist' = hist
       ELSE /\ wk' = [wk EXCEPT ![t].pc = "send"]
            /\ hist' = [hist EXCEPT ![t] = Append(@, Entry(wk[t].i, "send", FALSE))]
    /\ UNCHANGED <<tasks, tasks_lock, req, logs, creds, call>>

\* smtp.send_message returns, or raises into the except clause of the loop body
GenericSendReturn(t) ==
    /\ wk[t].pc = "send"
    /\ \E ok \in BOOLEAN :
        /\ hist' = [hist EXCEPT ![t] = SetLast(@, "res", IF ok THEN "ok" ELSE "raise")]
        /\ wk' = [wk EXCEPT ![t].pc = "count",
                            ![t].pend = IF ok THEN "sent" ELSE "failed"]
    /\ UNCHANGED <<tasks, tasks_lock, req, logs, creds, call>>

\* after the counter: time.sleep(0.1), next recipient (send_task logs nothing)
GenericNext(t) ==
    /\ wk[t].pc = "slept"
    /\ wk' = [wk EXCEPT ![t] = NextRecipient(@)]
    /\ UNCHANGED <<tasks, tasks_lock, req, logs, hist, creds, call>>

send_task(t) ==
    /\ wk[t].kind = "generic"
    /\ \/ WorkerLock(t)
       \/ WorkerStart(t)
       \/ GenericPrep(t)
       \/ GenericLoop(t)
       \/ GenericSendReturn(t)
       \/ Count(t, "slept")
       \/ GenericNext(t)
       \/ WorkerDone(t)
       \/ WorkerError(t)

\* --------------------------------------------------------- send_custom_task
\* Building generic_html from the fragment, the skeleton or the preview HTML:
\* the result is some HTML (the composition is not modelled here), or
\* render_template raises.
CustomPrep(t) ==
    /\ wk[t].pc = "prep"
    /\ \/ \E g \in Htmls : wk' = [wk EXCEPT ![t].pc = "loop", ![t].gen = g]
       \/ wk' = [wk EXCEPT ![t].pc = "except", ![t].exc = "trace: render_template"]
    /\ UNCHANGED <<tasks, tasks_lock, req, logs, hist, creds, call>>

\* Variant of CustomLoop: the verdict of has_meaningful_body is not acted on
CustomLoopNoGate(t) ==
    /\ wk[t].pc = "loop"
    /\ IF wk[t].i > wk[t].n
       THEN /\ wk' = [wk EXCEPT ![t].pc = "cleanup"]
            /\ hist' = hist
       ELSE \E nameLen \in NameLens :
              LET final_html == Personalize(wk[t].gen, nameLen)
              IN  /\ wk' = [wk EXCEPT ![t].pc = "send"]
                  /\ hist' = [hist EXCEPT ![t] = Append(@,
                                 Entry(wk[t].i, "send", has_meaningful_body(final_html)))]
    /\ UNCHANGED <<tasks, tasks_lock, req, logs, creds, call>>

\* for r in recipients: personalize, run has_meaningful_body on final_html,
\* then either skip (failed is counted next) or call the send operation
CustomLoop(t) ==
    /\ wk[t].pc = "loop"
    /\ IF wk[t].i > wk[t].n
       THEN /\ wk' = [wk EXCEPT ![t].pc = "cleanup"]
            /\ hist' = hist
       ELSE \E nameLen \in NameLens :
              LET final_html == Personalize(wk[t].gen, nameLen)
              IN  IF ~has_meaningful_body(final_html)
                  THEN /\ wk' = [wk EXCEPT ![t].pc = "count", ![t].pend = "skip"]
                       /\ hist' = [hist EXCEPT ![t] = Append(@, Entry(wk[t].i, "skip", FALSE))]
                  ELSE /\ wk' = [wk EXCEPT ![t].pc = "send"]
                       /\ hist' = [hist EXCEPT ![t] = Append(@,
                                      Entry(wk[t].i, "send", has_meaningful_body(final_html)))]
    /\ UNCHANGED <<tasks, tasks_lock, req, logs, creds, call>>

\* Variant of CustomLog: the 'skipped-empty-body' call has no try/except of
\* its own, a raise is caught by the except clause of the loop body
CustomLogUnguarded(t) ==
    /\ wk[t].pc = "log"
    /\ LET st == CASE wk[t].pend = "skip" -> "skipped-empty-body"
                   [] wk[t].pend = "sent" -> "sent"
                   [] wk[t].pend = "failed" -> "failed: err"
       IN \/ /\ logs' = Append(logs, LogRow(t, st))
             /\ wk' = [wk EXCEPT ![t] = NextRecipient(@)]
             /\ hist' = hist
          \/ /\ logs' = logs
             /\ wk' = [wk EXCEPT ![t].pc = "h_count"]
             /\ hist' = [hist EXCEPT ![t] = SetLast(@, "logRaised", TRUE)]
    /\ UNCHANGED <<tasks, tasks_lock, req, creds, call>>

\* mdb.log_entry after the counter.  'skipped-empty-body' is logged inside its
\* own try/except and then `continue`; a raise of the other two calls is
\* caught by the except clause of the loop body.
CustomLog(t) ==
    /\ wk[t].pc = "log"
    /\ LET st == CASE wk[t].pend = "skip" -> "skipped-empty-body"
                   [] wk[t].pend = "sent" -> "sent"
                   [] wk[t].pend = "failed" -> "failed: err"
       IN \/ /\ logs' = Append(logs, LogRow(t, st))
             /\ wk' = [wk EXCEPT ![t] = NextRecipient(@)]
             /\ hist' = hist
          \/ /\ logs' = logs
             /\ wk' = IF wk[t].pend = "skip"
                      THEN [wk EXCEPT ![t] = NextRecipient(@)]
                      ELSE [wk EXCEPT ![t].pc = "h_count"]
             /\ hist' = [hist EXCEPT ![t] = SetLast(@, "logRaised", TRUE)]
    /\ UNCHANGED <<tasks, tasks_lock, req, creds, call>>

\* except Exception as e: with tasks_lock: tasks[task_id]['failed'] += 1
CustomHandlerCount(t) ==
    /\ wk[t].pc = "h_count_locked"
    /\ tasks_lock = ByWorker(t)
    /\ tasks' = [tasks EXCEPT ![t].failed = @ + 1]
    /\ hist' = [hist EXCEPT ![t] = BumpLast(@, "incF")]
    /\ tasks_lock' = Free
    /\ wk' = [wk EXCEPT ![t].pc = "h_log"]
    /\ UNCHANGED <<req, logs, creds, call>>

\* ... mdb.log_entry(email, 'custom', subject, f'failed: {e}'), not guarded
CustomHandlerLog(t) ==
    /\ wk[t].pc = "h_log"
    /\ \/ /\ logs' = Append(logs, LogRow(t, "failed: exc"))
          /\ wk' = [wk EXCEPT ![t] = NextRecipient(@)]
          /\ hist' = hist
       \/ /\ logs' = logs
          /\ wk' = [wk EXCEPT ![t].pc = "except", ![t].exc = "trace: log_entry"]
          /\ hist' = [hist EXCEPT ![t] = SetLast(@, "logRaised", TRUE)]
    /\ UNCHANGED <<tasks, tasks_lock, req, creds, call>>

send_custom_task(t) ==
    /\ wk[t].kind = "custom"
    /\ \/ WorkerLock(t)
       \/ WorkerStart(t)
       \/ CustomPrep(t)
       \/ CustomLoop(t)
       \/ SendReturn(t)
       \/ Count(t, "log")
       \/ CustomLog(t)
       \/ CustomHandlerCount(t)
       \/ CustomHandlerLog(t)
       \/ Cleanup(t)
       \/ WorkerDone(t)
       \/ WorkerError(t)

\* ----------------------------------- send_greetings_task, send_product_task
\* Nothing happens between the start and the loop
NoPrep(t) ==
    /\ wk[t].pc = "prep"
    /\ wk' = [wk EXCEPT ![t].pc = "loop"]
    /\ UNCHANGED <<tasks, tasks_lock, req, logs, hist, creds, call>>

\* for r in recipients: render_template (it may raise: there is no try around
\* the loop body), inline_css, then call the send operation
RenderLoop(t, after) ==
    /\ wk[t].pc = "loop"
    /\ IF wk[t].i > wk[t].n
       THEN /\ wk' = [wk EXCEPT ![t].pc = after]
            /\ hist' = hist
       ELSE \/ /\ wk' = [wk EXCEPT ![t].pc = "send"]
               /\ hist' = [hist EXCEPT ![t] = Append(@, Entry(wk[t].i, "send", FALSE))]
            \/ /\ wk' = [wk EXCEPT ![t].pc = "except", ![t].exc = "trace: render_template"]
               /\ hist' = [hist EXCEPT ![t] = Append(@, Entry(wk[t].i, "fault", FALSE))]
    /\ UNCHANGED <<tasks, tasks_lock, req, logs, creds, call>>

\* mdb.log_entry after the counter; a raise leaves the loop
PlainLog(t) ==
    /\ wk[t].pc = "log"
    /\ \/ /\ logs' = Append(logs, LogRow(t, IF wk[t].pend = "sent" THEN "sent" ELSE "failed: err"))
          /\ wk' = [wk EXCEPT ![t] = NextRecipient(@)]
          /\ hist' = hist
       \/ /\ logs' = logs
          /\ wk' = [wk EXCEPT ![t].pc = "except", ![t].exc = "trace: log_entry"]
          /\ hist' = [hist EXCEPT ![t] = SetLast(@, "logRaised", TRUE)]
    /\ UNCHANGED <<tasks, tasks_lock, req, creds, call>>

send_greetings_task(t) ==
    /\ wk[t].kind = "greeting"
    /\ \/ WorkerLock(t)
       \/ WorkerStart(t)
       \/ NoPrep(t)
       \/ RenderLoop(t, "cleanup")
       \/ SendReturn(t)
       \/ Count(t, "log")
       \/ PlainLog(t)
       \/ Cleanup(t)
       \/ WorkerDone(t)
       \/ WorkerError(t)

send_product_task(t) ==
    /\ wk[t].kind = "product"
    /\ \/ WorkerLock(t)
       \/ WorkerStart(t)
       \/ NoPrep(t)
       \/ RenderLoop(t, "finish")
       \/ SendReturn(t)
       \/ Count(t, "log")
       \/ PlainLog(t)
       \/ WorkerDone(t)
       \/ WorkerError(t)

\* ------------------------------------------------------------ specification
Next ==
    \/ start_send
    \/ custom_start_send
    \/ greetings_start_send
    \/ product_start_send
    \/ RequestLock
    \/ CreateTask
    \/ send
    \/ progress
    \/ status
    \/ final
    \/ task_debug
    \/ \E t \in TaskIds : send_task(t)
    \/ \E t \in TaskIds : send_custom_task(t)
    \/ \E t \in TaskIds : send_greetings_task(t)
    \/ \E t \in TaskIds : send_product_task(t)

Spec == Init /\ [][Next]_vars

\* ---- fairness: every thread that can take a step is given the processor
\* The worker of task t, whichever kind it is
Worker(t) ==
    \/ send_task(t)
    \/ send_custom_task(t)
    \/ send_greetings_task(t)
    \/ send_product_task(t)

\* The request thread inside `with tasks_lock:` reaches the end of the block
LeaveLock ==
    \/ CreateTask
    \/ \E op \in {"progress", "status", "final", "task_debug"} : GetAndRelease(op)

\* A worker thread keeps running: a call it is in returns or raises, and the
\* lock it waits for is given to it at some time when it is free again and
\* again; a handler that holds the lock leaves it.
SpecFair ==
    /\ Init /\ [][Next]_vars
    /\ \A t \in {"t1"} : SF_vars(Worker(t))
    /\ WF_vars(LeaveLock)

\* ------------------------------------------------- two tasks at the same time
\* The tasks dict with room for two ids: a custom campaign and greeting
\* campaigns are started in any order, each creates a task and starts its
\* worker while the other task's worker runs, and the read-only handlers look
\* at either task in between.  At most one of the two tasks is a custom one,
\* and it has a single recipient.
InitConcurrent ==
    /\ tasks = [t \in {"t1", "t2"} |-> NoTask]
    /\ tasks_lock = Free
    /\ wk = [t \in {"t1", "t2"} |-> IdleWorker]
    /\ req = IdleReq
    /\ logs = << >>
    /\ hist = [t \in {"t1", "t2"} |-> << >>]
    /\ creds = TRUE
    /\ call = NoCall

custom_start_send_concurrent == \E frag \in Htmls :
    /\ \A t \in TaskIds : wk[t].kind # "custom"
    /\ StartRequest("custom", 1, frag, FALSE)

greetings_start_send_concurrent == \E n \in 1..MaxConcurrentRecipients :
    StartRequest("greeting", n, NoHtml, FALSE)

\* uuid4 ids carry no meaning: the id of the first task is called t1
CreateTaskConcurrent == CreateTask /\ tasks'["t1"].status # "none"

NextConcurrent ==
    \/ custom_start_send_concurrent
    \/ greetings_start_send_concurrent
    \/ RequestLock
    \/ CreateTaskConcurrent
    \/ progress
    \/ status
    \/ final
    \/ task_debug
    \/ \E t \in TaskIds : send_custom_task(t)
    \/ \E t \in TaskIds : send_greetings_task(t)

SpecConcurrent == InitConcurrent /\ [][NextConcurrent]_vars

\* ------------------------------------------------------- helper functions
\* The helper functions of app.py are examined one call at a time: the initial
\* states hold the arguments, the one step of the call stores the result.  No
\* task exists and no request is being served meanwhile.
sendVars == <<tasks, tasks_lock, wk, req, logs, hist, creds>>

NoSending ==
    /\ tasks = [t \in {"t1"} |-> NoTask]
    /\ tasks_lock = Free
    /\ wk = [t \in {"t1"} |-> IdleWorker]
    /\ req = IdleReq
    /\ logs = << >>
    /\ hist = [t \in {"t1"} |-> << >>]
    /\ creds = TRUE

\* A string is a sequence of pieces of text; the pieces are the parts of the
\* two markers and a piece "x" of other text.
Strings(alphabet, n) == UNION { [1..k -> alphabet] : k \in 0..n }

\* p in s
Occurs(s, p) == \E i \in 1..(Len(s) - Len(p) + 1) : SubSeq(s, i, i + Len(p) - 1) = p

\* str.replace(old, new): the occurrences of old are found from the left and
\* do not overlap; the scan goes on after each replaced occurrence.
RECURSIVE replace(_, _, _)
replace(s, old, new) ==
    IF Len(s) < Len(old) THEN s
    ELSE IF SubSeq(s, 1, Len(old)) = old
    THEN new \o replace(SubSeq(s, Len(old) + 1, Len(s)), old, new)
    ELSE <<Head(s)>> \o replace(Tail(s), old, new)

\* '[[RECIPIENT_NAME]]' and "___RECIPIENT_NAME_PLACEHOLDER___", cut in pieces
RECIPIENT_NAME == <<"[[", "RECIPIENT_NAME", "]]">>
greeting_marker == <<"___", "RECIPIENT_NAME", "_PLACEHOLDER", "___">>
Educator == <<"Educator">>
Pieces == {"[[", "RECIPIENT_NAME", "]]", "___", "_PLACEHOLDER", "x"}

\* The loop body without the conversion of '[[RECIPIENT_NAME]]'
personalize_unconverted(generic_html, r_name) ==
    LET name == IF r_name = << >> THEN Educator ELSE r_name
    IN  replace(generic_html, greeting_marker, name)

\* name = r.get('name') or 'Educator'
\* generic_html = generic_html.replace('[[RECIPIENT_NAME]]', greeting_marker)
\* final_html = generic_html.replace(greeting_marker, name)
personalize(generic_html, r_name) ==
    LET name == IF r_name = << >> THEN Educator ELSE r_name
    IN  replace(replace(generic_html, RECIPIENT_NAME, greeting_marker),
                greeting_marker, name)

InitPersonalize ==
    /\ NoSending
    /\ \E h \in Strings(Pieces, MaxHtmlLen), nm \in Strings(Pieces, MaxNameLen) :
        /\ Occurs(h, RECIPIENT_NAME) \/ Occurs(h, greeting_marker)
        /\ call = [fn |-> "personalize", generic_html |-> h, name |-> nm,
                   final_html |-> << >>, returned |-> FALSE]

PersonalizeCall ==
    /\ call.fn = "personalize" /\ ~call.returned
    /\ call' = [call EXCEPT !.final_html = personalize(call.generic_html, call.name),
                            !.returned = TRUE]
    /\ UNCHANGED sendVars

NextPersonalize == PersonalizeCall

SpecPersonalize == InitPersonalize /\ [][NextPersonalize]_vars

\* ---- the greeting of a custom campaign: preview, confirm, worker
\* A body fragment is made of the pieces of the placeholder, an explicit
\* greeting word with the space after it ("Hi "), a line break and other text.
FragPieces == {"[[", "RECIPIENT_NAME", "]]", "Hi ", "\n", "x"}
Names == {<< >>, <<"Asha">>, <<"Ravi">>}

\* '[[RECIPIENT_NAME]]' in body_fragment or re.search(r'(?im)^(\s*(hi|hello|dear)\s+)', body_fragment)
fragment_has_greeting(body_fragment) ==
    \/ Occurs(body_fragment, RECIPIENT_NAME)
    \/ \E i \in 1..Len(body_fragment) :
        body_fragment[i] = "Hi " /\ (i = 1 \/ body_fragment[i - 1] = "\n")

\* <p style="...">Hi {who},</p>
greeting_html(who) == <<"<p>", "Hi ">> \o who \o <<",", "</p>">>

\* _wrap_fragment and its copy in the worker
wrap_fragment(content) == <<"<div>">> \o content \o <<"</div>">>

\* custom_send: the fragment shown in the preview, made for the first recipient
fragment_preview(body_fragment, first_name) ==
    wrap_fragment(
        IF fragment_has_greeting(body_fragment)
        THEN replace(body_fragment, RECIPIENT_NAME, first_name)
        ELSE replace(greeting_html(IF first_name = << >> THEN Educator ELSE first_name)
                         \o body_fragment, RECIPIENT_NAME, first_name))

\* send_custom_task: the fragment with the internal marker
frag_for_send(body_fragment, has_greeting, first_recipient_name) ==
    wrap_fragment(
        IF Occurs(body_fragment, RECIPIENT_NAME)
        THEN replace(body_fragment, RECIPIENT_NAME, greeting_marker)
        ELSE IF ~has_greeting /\ first_recipient_name # << >>
        THEN greeting_html(greeting_marker) \o body_fragment
        ELSE body_fragment)

InitCustomFlow ==
    /\ NoSending
    /\ \E b \in Strings(FragPieces, MaxFragLen) \ {<< >>},
          rs \in [1..1 -> Names] \cup [1..2 -> Names] :
        call = [fn |-> "custom", pc |-> "custom_send", body_fragment |-> b,
                recipients |-> rs, fragment_preview |-> << >>,
                fragment_has_greeting |-> FALSE, sent |-> << >>]

\* custom_send renders the preview for the first recipient
CustomSendPreview ==
    /\ call.fn = "custom" /\ call.pc = "custom_send"
    /\ call' = [call EXCEPT
            !.fragment_preview = fragment_preview(call.body_fragment, call.recipients[1]),
            !.pc = "custom_start_send"]
    /\ UNCHANGED sendVars

\* custom_start_send reads fragment_has_greeting from the posted form.  The
\* preview page is not given the value custom_send computed (it is no argument
\* of render_template): the field is absent, or a page that works it out again
\* posts the same value.
CustomStartSendFlag ==
    /\ call.fn = "custom" /\ call.pc = "custom_start_send"
    /\ \E posted \in {FALSE, fragment_has_greeting(call.body_fragment)} :
        call' = [call EXCEPT !.fragment_has_greeting = posted, !.pc = "send_custom_task"]
    /\ UNCHANGED sendVars

\* send_custom_task builds the generic fragment once and fills it in for
\* every recipient
CustomTaskHtml ==
    /\ call.fn = "custom" /\ call.pc = "send_custom_task"
    /\ LET generic == frag_for_send(call.body_fragment, call.fragment_has_greeting,
                                    call.recipients[1])
       IN  call' = [call EXCEPT
                !.sent = [j \in 1..Len(call.recipients) |->
                             personalize(generic, call.recipients[j])],
                !.pc = "done"]
    /\ UNCHANGED sendVars

NextCustomFlow ==
    \/ CustomSendPreview
    \/ CustomStartSendFlag
    \/ CustomTaskHtml

SpecCustomFlow == InitCustomFlow /\ [][NextCustomFlow]_vars

\* ---- has_meaningful_body on text
\* A text is a sequence of tokens: tags, whitespace, and words of known
\* length.  A run of tokens without whitespace between them is one word of
\* str.split().
Tags == {"<p>", "</p>"}
Spaces == {" ", "\n"}
TokLen == ("abcd" :> 4) @@ ("abcde" :> 5) @@ ("abcdefgh" :> 8) @@ ("--------" :> 8)
          @@ ("unsubscribe" :> 11) @@ ("Hi" :> 2) @@ ("John," :> 5) @@ ("," :> 1)
          @@ (" " :> 1) @@ ("\n" :> 1) @@ ("<p>" :> 3) @@ ("</p>" :> 4)
\* Tokens without a letter or digit
Symbols == {"--------", ","} \cup Spaces
\* The words the sentences are made of
WordToks == {"abcd", "abcde", "abcdefgh", "--------", "unsubscribe"}

NotTag(t) == t \notin Tags
NotSpace(t) == t \notin Spaces
NotBoilerplate(t) == t # "unsubscribe"

\* re.sub(r'<[^>]+>', '', html_fragment)
strip_tags(s) == SelectSeq(s, NotTag)

\* the re.sub calls that delete a boilerplate phrase where it stands
remove_boilerplate(s) == SelectSeq(s, NotBoilerplate)

\* re.sub(r'(?i)^\s*(hi|hello|dear|regards|thanks|thank you)\s*[,.]?\s*$', '', text)
remove_greeting_only(s) ==
    IF SelectSeq(s, NotSpace) \in {<<"Hi">>, <<"Hi", ",">>} THEN << >> ELSE s

RECURSIVE lstrip(_)
lstrip(s) == IF s # << >> /\ Head(s) \in Spaces THEN lstrip(Tail(s)) ELSE s

RECURSIVE rstrip(_)
rstrip(s) ==
    IF s # << >> /\ s[Len(s)] \in Spaces THEN rstrip(SubSeq(s, 1, Len(s) - 1)) ELSE s

\* text.strip()
strip(s) == rstrip(lstrip(s))

\* re.sub(r'\s+', ' ', text)
RECURSIVE collapse(_)
collapse(s) ==
    IF s = << >> THEN << >>
    ELSE IF Head(s) \in Spaces THEN <<" ">> \o collapse(lstrip(s))
    ELSE <<Head(s)>> \o collapse(Tail(s))

\* The number of tokens instead of the number of characters
len_tokens(s) == Len(s)

\* len(text)
RECURSIVE len(_)
len(s) == IF s = << >> THEN 0 ELSE TokLen[Head(s)] + len(Tail(s))

\* len(text.split())
split_count(s) ==
    Cardinality({ i \in 1..Len(s) : s[i] \notin Spaces /\ (i = 1 \/ s[i - 1] \in Spaces) })

\* The text has_meaningful_body measures
remaining_text(html_fragment) ==
    collapse(strip(remove_greeting_only(remove_boilerplate(strip_tags(html_fragment)))))

\* What the three tests of has_meaningful_body see of the text
measure(html_fragment) ==
    LET text == remaining_text(html_fragment)
    IN  [chars |-> len(text), words |-> split_count(text),
         alnum |-> \E i \in 1..Len(text) : text[i] \notin Symbols, marker |-> FALSE]

\* has_meaningful_body(html_fragment) for a text
has_meaningful_body_text(html_fragment) ==
    IF html_fragment = << >> THEN FALSE ELSE has_meaningful_body(measure(html_fragment))

\* words joined by sep
RECURSIVE join(_, _)
join(ws, sep) ==
    IF ws = << >> THEN << >>
    ELSE IF Len(ws) = 1 THEN ws
    ELSE <<Head(ws)>> \o sep \o join(Tail(ws), sep)

\* The texts given to the validator: a sentence of up to MaxWords words,
\* plain, or as an HTML paragraph, or with surplus whitespace around and
\* between the words; and a few texts of other shapes.
Shaped(ws, shape) ==
    CASE shape = "plain" -> join(ws, <<" ">>)
      [] shape = "paragraph" -> <<"<p>">> \o join(ws, <<" ">>) \o <<"</p>">>
      [] shape = "padded" -> <<" ", "\n">> \o join(ws, <<" ", " ">>) \o <<" ">>

OtherTexts == { <<" ">>, <<" ", "\n", " ">>, <<"<p>", "Hi", " ", "John,", "</p>">>,
                <<"Hi">>, <<" ", "Hi", ",", "\n">>, <<"<p>", "</p>">> }

InitValidator ==
    /\ NoSending
    /\ \/ \E k \in 0..MaxWords, shape \in {"plain", "paragraph", "padded"} :
            \E ws \in [1..k -> WordToks] :
                call = [fn |-> "has_meaningful_body", words |-> ws, shape |-> shape,
                        html_fragment |-> Shaped(ws, shape),
                        result |-> FALSE, returned |-> FALSE]
       \/ \E h \in OtherTexts :
            call = [fn |-> "has_meaningful_body", words |-> << >>, shape |-> "other",
                    html_fragment |-> h, result |-> FALSE, returned |-> FALSE]

ValidatorCall ==
    /\ call.fn = "has_meaningful_body" /\ ~call.returned
    /\ call' = [call EXCEPT !.result = has_meaningful_body_text(call.html_fragment),
                            !.returned = TRUE]
    /\ UNCHANGED sendVars

NextValidator == ValidatorCall

SpecValidator == InitValidator /\ [][NextValidator]_vars

\* ---- the recipients of an uploaded table
\* A cell or a column name is a string (a sequence of pieces), or NaN for a
\* cell that is empty in the file.
NaN == <<"NaN">>

\* str(v)
Str(v) == IF v = NaN THEN <<"nan">> ELSE v

\* str.lower(), piece by piece
Lowered == ("Full" :> "full") @@ ("Name" :> "name") @@ ("Email" :> "email")
           @@ ("EMAIL" :> "email") @@ ("Address" :> "address") @@ ("Contact" :> "contact")
           @@ ("Phone" :> "phone") @@ ("Asha" :> "asha") @@ ("Ravi" :> "ravi")
           @@ ("A@X" :> "a@x")
lower(s) == [i \in 1..Len(s) |-> IF s[i] \in DOMAIN Lowered THEN Lowered[s[i]] ELSE s[i]]

\* The column names of the uploaded file
Headers == { << <<"Full", " ", "Name">>, <<"Email", " ", "Address">> >>,
             << <<"EMAIL">>, <<"first">> >>,
             << <<"Contact">>, <<"Name">> >>,
             << <<"Email">>, <<"Phone">> >> }

\* What the cells of the address column and of the other column may hold
EmailCells == { NaN, <<" ">>, <<"a@x">>, <<" ", "a@x">>, <<"A@X">>, <<"b@x">>,
                <<"b@x", ",", "a@x">> }
OtherCells == { NaN, <<"Asha">>, <<"Ravi">>, <<"a@x">> }

\* Series.unique(): the values in the order of their first appearance
RECURSIVE unique(_)
unique(vs) ==
    IF vs = << >> THEN << >>
    ELSE LET front == unique(SubSeq(vs, 1, Len(vs) - 1))
             v == vs[Len(vs)]
         IN  IF \E i \in 1..Len(front) : front[i] = v THEN front ELSE Append(front, v)

NotNaN(v) == v # NaN

\* df[col].dropna().astype(str).str.strip().unique().tolist()
column_values(df, col) ==
    LET cells == [i \in 1..Len(df.rows) |-> df.rows[i][col]]
        kept == SelectSeq(cells, NotNaN)
    IN  unique([i \in 1..Len(kept) |-> strip(Str(kept[i]))])

\* The first column whose lowered name contains one of the words, 0 if none
first_column(df, words) ==
    LET hits == { c \in 1..Len(df.columns) :
                    \E w \in words : Occurs(lower(Str(df.columns[c])), <<w>>) }
    IN  IF hits = {} THEN 0 ELSE CHOOSE c \in hits : \A d \in hits : c <= d

extract_emails_from_dataframe(df) ==
    LET col == first_column(df, {"email"})
    IN  IF col # 0 THEN column_values(df, col) ELSE column_values(df, 1)

\* any(str(v).lower().find(str(e).lower()) != -1 for v in r.values)
row_matches(row, e) == \E c \in 1..Len(row) : Occurs(lower(Str(row[c])), lower(Str(e)))

\* name_val = str(matches.iloc[0][name_col]), '' when nothing matches
name_of(df, name_col, e) ==
    LET matches == { i \in 1..Len(df.rows) : row_matches(df.rows[i], e) }
    IN  IF matches = {} THEN << >>
        ELSE Str(df.rows[CHOOSE i \in matches : \A j \in matches : i <= j][name_col])

\* custom_send and greetings_send: the recipients of the uploaded table
recipients_of(df) ==
    LET emails == extract_emails_from_dataframe(df)
        name_col == first_column(df, {"name", "first", "full"})
    IN  [k \in 1..Len(emails) |->
            [email |-> emails[k],
             name |-> IF name_col # 0 THEN name_of(df, name_col, emails[k]) ELSE << >>]]

\* The row of a table whose address column is column ecol
TableRow(ecol, e, o) == IF ecol = 1 THEN <<e, o>> ELSE <<o, e>>

InitRecipients ==
    /\ NoSending
    /\ \E h \in Headers, n \in 0..MaxRows :
        \E es \in [1..n -> EmailCells], os \in [1..n -> OtherCells] :
            LET ecol == IF h[2] = <<"Email", " ", "Address">> THEN 2 ELSE 1
            IN  call = [fn |-> "recipients",
                        df |-> [columns |-> h,
                                rows |-> [i \in 1..n |-> TableRow(ecol, es[i], os[i])]],
                        email_col |-> ecol,
                        emails |-> << >>, recipients |-> << >>, returned |-> FALSE]

RecipientsCall ==
    /\ call.fn = "recipients" /\ ~call.returned
    /\ call' = [call EXCEPT !.emails = extract_emails_from_dataframe(call.df),
                            !.recipients = recipients_of(call.df),
                            !.returned = TRUE]
    /\ UNCHANGED sendVars

NextRecipients == RecipientsCall

SpecRecipients == InitRecipients /\ [][NextRecipients]_vars

\* ---- the Skeleton Composer
\* A skeleton and a fragment are sequences of tokens: the opening tags of the
\* header, body and footer cells, of a cell without class and of a table, the
\* closing tags, the [[AI_BODY]] token and other text.  In a fragment a
\* backslash sequence is one token: "\\1" and "\\2" (group references), "\\n"
\* (an escape the template engine knows), "\\\\" (an escaped backslash) and
\* "\\p" (an escape it rejects).
BodyOpen == "<td class='body'>"
CellClose == "</td>"
HeaderCell == <<"<td class='header'>", "head", CellClose>>
FooterCell == <<"<td class='footer'>", "foot", CellClose>>
NestedTable == <<"<table>", "<td>", "inner", CellClose, "</table>">>
BodyContents == { << >>, <<"old">>, NestedTable }
FragToks == {"new", "\\1", "\\2", "\\n", "\\\\", "\\p"}

\* Where the first CellClose of s is, 0 if there is none
first_close(s) ==
    IF \E j \in 1..Len(s) : s[j] = CellClose
    THEN CHOOSE j \in 1..Len(s) : s[j] = CellClose /\ \A k \in 1..(j - 1) : s[k] # CellClose
    ELSE 0

\* re.search(r'(?is)<td[^>]*class=["\']body["\'][^>]*>.*?<\/td>', structure_html)
has_body_cell(s) ==
    \E i \in 1..Len(s) : s[i] = BodyOpen /\ \E j \in (i + 1)..Len(s) : s[j] = CellClose

\* The replacement template is rejected: re.sub raises re.error
bad_template(template) == \E i \in 1..Len(template) : template[i] = "\\p"

\* The replacement for one match: the escapes of the template are worked out
RECURSIVE expand(_, _, _)
expand(template, g1, g2) ==
    IF template = << >> THEN << >>
    ELSE (CASE Head(template) = "\\1" -> g1
            [] Head(template) = "\\2" -> g2
            [] Head(template) = "\\n" -> <<"\n">>
            [] Head(template) = "\\\\" -> <<"\\">>
            [] OTHER -> <<Head(template)>>)
         \o expand(Tail(template), g1, g2)

\* re.sub(r'(?is)(<td[^>]*class=["\']body["\'][^>]*>).*?(<\/td>)', template, s):
\* every match, from the left, is replaced; a match runs from a body cell's
\* opening tag to the first closing tag after it
RECURSIVE sub(_, _)
sub(s, template) ==
    IF s = << >> THEN << >>
    ELSE IF Head(s) = BodyOpen /\ first_close(Tail(s)) # 0
    THEN expand(template, <<BodyOpen>>, <<CellClose>>)
         \o sub(SubSeq(s, first_close(Tail(s)) + 2, Len(s)), template)
    ELSE <<Head(s)>> \o sub(Tail(s), template)

\* str.replace(old, new, 1)
RECURSIVE replace_first(_, _, _)
replace_first(s, old, new) ==
    IF Len(s) < Len(old) THEN s
    ELSE IF SubSeq(s, 1, Len(old)) = old
    THEN new \o SubSeq(s, Len(old) + 1, Len(s))
    ELSE <<Head(s)>> \o replace_first(Tail(s), old, new)

\* custom_send and send_custom_task: the fragment is put into the skeleton
inject(structure_html, fragment) ==
    IF has_body_cell(structure_html)
    THEN IF bad_template(fragment)
         THEN structure_html \o fragment
         ELSE sub(structure_html, <<"\\1">> \o fragment \o <<"\\2">>)
    ELSE IF Occurs(structure_html, <<"[[AI_BODY]]">>)
    THEN replace(structure_html, <<"[[AI_BODY]]">>, fragment)
    ELSE replace_first(structure_html, <<"</table>">>,
                       <<"<tr>", BodyOpen>> \o fragment \o <<CellClose, "</tr>", "</table>">>)

\* Body cells one after the other
RECURSIVE body_cells(_)
body_cells(contents) ==
    IF contents = << >> THEN << >>
    ELSE <<BodyOpen>> \o Head(contents) \o <<CellClose>> \o body_cells(Tail(contents))

\* The skeletons: a table with a header cell, up to MaxBodyCells body cells
\* (or, without a body cell, possibly the [[AI_BODY]] token) and possibly a
\* footer cell
Skeleton(contents, token, footer) ==
    <<"<table>">> \o HeaderCell \o body_cells(contents)
    \o (IF token THEN <<"[[AI_BODY]]">> ELSE << >>)
    \o (IF footer THEN FooterCell ELSE << >>) \o <<"</table>">>

\* A skeleton that is laid out without a table
DivSkeleton == <<"<div>", "head", "</div>">>

InitComposer ==
    /\ NoSending
    /\ \E n \in 0..MaxBodyCells, footer \in BOOLEAN, token \in BOOLEAN :
        \E contents \in [1..n -> BodyContents],
           f \in Strings(FragToks, MaxFragToks) \ {<< >>} :
            /\ token => n = 0
            /\ \/ call = [fn |-> "inject", structure_html |-> Skeleton(contents, token, footer),
                          cells |-> n, footer |-> footer, fragment |-> f,
                          html |-> << >>, returned |-> FALSE]
               \/ /\ n = 0 /\ ~token /\ ~footer
                  /\ call = [fn |-> "inject", structure_html |-> DivSkeleton,
                             cells |-> 0, footer |-> FALSE, fragment |-> f,
                             html |-> << >>, returned |-> FALSE]

ComposerCall ==
    /\ call.fn = "inject" /\ ~call.returned
    /\ call' = [call EXCEPT !.html = inject(call.structure_html, call.fragment),
                            !.returned = TRUE]
    /\ UNCHANGED sendVars

NextComposer == ComposerCall

SpecComposer == InitComposer /\ [][NextComposer]_vars

\* ---- inline_css and its callers
\* A page is a sequence of pieces: a <style> block, an element with a class,
\* and other text.  premailer_transform puts the style into the elements and
\* removes the classes, and drops the <style> block unless keep_style_tags.
PagePieces == {"<style>", "<p class>", "x"}

premailer_transform(html, keep_style_tags) ==
    LET inlined == [i \in 1..Len(html) |->
                       IF html[i] = "<p class>" THEN "<p style>" ELSE html[i]]
        NotStyle(p) == p # "<style>"
    IN  IF keep_style_tags THEN inlined ELSE SelectSeq(inlined, NotStyle)

\* premailer: "absent" (the import failed, premailer_transform is None),
\* "works", or "throws" (the transform raises on this page)
inline_css(html, keep_style_tags, premailer) ==
    IF html = << >> THEN html
    ELSE IF premailer = "works" THEN premailer_transform(html, keep_style_tags)
    ELSE html

\* The callers of inline_css: preview handlers, the generic send handler and
\* the workers
Callers == {"custom_send", "greetings_send", "start_send", "send_custom_task",
            "send_greetings_task", "send_product_task"}
\* Callers that test PREMAILER_AVAILABLE before the call
GuardedCallers == Callers \ {"start_send", "send_product_task"}
\* Callers that flash a warning in the else branch of that test
FlashingCallers == {"custom_send", "greetings_send"}
\* Callers that keep the <style> block
KeepingCallers == Callers \ {"send_custom_task"}

InitInliner ==
    /\ NoSending
    /\ \E c \in Callers, pm \in {"absent", "works", "throws"},
          h \in Strings(PagePieces, MaxPageLen) :
        call = [fn |-> "inline_css", caller |-> c, premailer |-> pm, pc |-> "caller",
                html_in |-> h, html |-> h, raised |-> FALSE, logged |-> FALSE,
                flashed |-> FALSE]

\* if PREMAILER_AVAILABLE: ... = inline_css(...)  else: flash(..., 'warning')
\* (custom_send also takes the else branch for an empty page)
CallerTest ==
    /\ call.fn = "inline_css" /\ call.pc = "caller"
    /\ IF /\ call.caller \in GuardedCallers
          /\ \/ call.premailer = "absent"
             \/ call.caller = "custom_send" /\ call.html = << >>
       THEN call' = [call EXCEPT !.pc = "continued",
                                 !.flashed = call.caller \in FlashingCallers]
       ELSE call' = [call EXCEPT !.pc = "inline_css"]
    /\ UNCHANGED sendVars

\* The call itself; an exception of the transform is logged and swallowed
InlineCss ==
    /\ call.fn = "inline_css" /\ call.pc = "inline_css"
    /\ call' = [call EXCEPT
            !.html = inline_css(call.html, call.caller \in KeepingCallers, call.premailer),
            !.logged = (call.html # << >> /\ call.premailer = "throws"),
            !.pc = "continued"]
    /\ UNCHANGED sendVars

NextInliner ==
    \/ CallerTest
    \/ InlineCss

SpecInliner == InitInliner /\ [][NextInliner]_vars

\* ---- composing a preview with or without the LLM
\* llm: "absent" (no openai package or no API key), "raises" (the call
\* fails), "works".  A string that comes back is named by who produced it:
\* the fragment is "llm", "local_formatter" (_local_structure_format of
\* rewrite_body) or "stylizer" (stylize_marketing_body); a subject is "user",
\* "llm", "default", "" (empty) or "unbound" (the local variable subj of
\* custom_send before its first assignment).
Llms == {"absent", "raises", "works"}

\* OPENAI_AVAILABLE
OPENAI_AVAILABLE(llm) == llm # "absent"

\* rewrite_body(..., structure_only=True): (subject, fragment); it catches
\* the failure of the call itself.  With a working LLM the answer may carry a
\* subject line or not.
rewrite_structure_only(llm, with_subject) ==
    IF llm = "works"
    THEN [subject |-> IF with_subject THEN "llm" ELSE "", fragment |-> "llm", raised |-> FALSE]
    ELSE [subject |-> "", fragment |-> "local_formatter", raised |-> FALSE]

\* rewrite_body(...) and generate_greeting(...): RuntimeError without the
\* service, the exception of the call when it fails
llm_or_raise(llm) ==
    IF llm = "works"
    THEN [subject |-> "llm", fragment |-> "llm", raised |-> FALSE]
    ELSE [subject |-> "", fragment |-> "none", raised |-> TRUE]

InitCompose ==
    /\ NoSending
    /\ \E h \in {"custom_send", "greetings_send"}, llm \in Llms,
          user_subject \in BOOLEAN, body \in BOOLEAN, use_ai \in {"none", "1", "0"} :
        /\ h = "custom_send" => (body /\ use_ai = "none")
        /\ call = [fn |-> "compose", handler |-> h, llm |-> llm,
                   user_subject |-> user_subject, body |-> body, use_ai |-> use_ai,
                   pc |-> "compose",
                   subj |-> IF h = "custom_send" THEN "unbound"
                            ELSE IF user_subject THEN "user" ELSE "default",
                   subj_ret |-> "", fragment |-> "none", flashed |-> FALSE,
                   resp |-> "none"]

\* custom_send, `if OPENAI_AVAILABLE:`; mcustom.generate_full_html is not
\* defined in mailer/custom.py, the call raises and the inner except clause
\* takes over.  Either way rewrite_body(structure_only=True) is next.
CustomCompose ==
    /\ call.fn = "compose" /\ call.handler = "custom_send" /\ call.pc = "compose"
    /\ call' = [call EXCEPT !.pc = IF OPENAI_AVAILABLE(call.llm)
                                   THEN "generate_full_html" ELSE "rewrite_body"]
    /\ UNCHANGED sendVars

CustomFullHtmlRaises ==
    /\ call.fn = "compose" /\ call.pc = "generate_full_html"
    /\ call' = [call EXCEPT !.pc = "rewrite_body"]
    /\ UNCHANGED sendVars

CustomRewrite ==
    /\ call.fn = "compose" /\ call.handler = "custom_send" /\ call.pc = "rewrite_body"
    /\ \E with_subject \in BOOLEAN :
        LET r == rewrite_structure_only(call.llm, with_subject)
        IN  call' = [call EXCEPT !.subj_ret = r.subject, !.fragment = r.fragment,
                                 !.pc = "subject"]
    /\ UNCHANGED sendVars

\* subj = user_subj if user_subj else (subj_ret or subj); body_fragment =
\* rewritten.  Reading the unbound subj raises UnboundLocalError before
\* either assignment.
CustomSubject ==
    /\ call.fn = "compose" /\ call.pc = "subject"
    /\ IF call.user_subject
       THEN call' = [call EXCEPT !.subj = "user", !.pc = "preview"]
       ELSE IF call.subj_ret # ""
       THEN call' = [call EXCEPT !.subj = call.subj_ret, !.pc = "preview"]
       ELSE IF call.subj = "unbound"
       THEN call' = [call EXCEPT !.fragment = "none", !.pc = "outer_except"]
       ELSE call' = [call EXCEPT !.pc = "preview"]
    /\ UNCHANGED sendVars

\* custom_send without the outer except clause: the exception leaves the handler
CustomOuterExceptMissing ==
    /\ call.fn = "compose" /\ call.pc = "outer_except"
    /\ call' = [call EXCEPT !.pc = "done", !.resp = "raised"]
    /\ UNCHANGED sendVars

\* except Exception: subj = request.form.get('subject') or 'Update from EduAI Hub'
\*                   body_fragment = stylize_marketing_body(description, ...)
CustomOuterExcept ==
    /\ call.fn = "compose" /\ call.pc = "outer_except"
    /\ call' = [call EXCEPT !.subj = IF call.user_subject THEN "user" ELSE "default",
                            !.fragment = "stylizer", !.pc = "preview"]
    /\ UNCHANGED sendVars

\* greetings_send: an empty body asks for a generated greeting; otherwise the
\* body is rewritten when use_ai says so, else stylized locally
GreetingsCompose ==
    /\ call.fn = "compose" /\ call.handler = "greetings_send" /\ call.pc = "compose"
    /\ LET use_ai == IF call.use_ai # "none" THEN call.use_ai = "1"
                     ELSE OPENAI_AVAILABLE(call.llm)
       IN  IF ~call.body
           THEN call' = [call EXCEPT !.pc = "generate_greeting"]
           ELSE IF use_ai
           THEN call' = [call EXCEPT !.pc = "rewrite_body"]
           ELSE call' = [call EXCEPT !.fragment = "stylizer", !.pc = "preview"]
    /\ UNCHANGED sendVars

\* mgreet.generate_greeting(...) resp. mcustom.rewrite_body(body, ...) inside
\* try; except Exception: flash a warning and stylize locally
GreetingsLlm ==
    /\ call.fn = "compose" /\ call.handler = "greetings_send"
    /\ call.pc \in {"generate_greeting", "rewrite_body"}
    /\ LET r == llm_or_raise(call.llm)
       IN  IF r.raised
           THEN call' = [call EXCEPT !.fragment = "stylizer", !.flashed = TRUE,
                                     !.pc = "preview"]
           ELSE call' = [call EXCEPT !.fragment = r.fragment, !.pc = "preview"]
    /\ UNCHANGED sendVars

\* return render_template('preview.html', ...)
ComposePreview ==
    /\ call.fn = "compose" /\ call.pc = "preview"
    /\ call' = [call EXCEPT !.pc = "done", !.resp = "preview"]
    /\ UNCHANGED sendVars

NextCompose ==
    \/ CustomCompose
    \/ CustomFullHtmlRaises
    \/ CustomRewrite
    \/ CustomSubject
    \/ CustomOuterExcept
    \/ GreetingsCompose
    \/ GreetingsLlm
    \/ ComposePreview

SpecCompose == InitCompose /\ [][NextCompose]_vars

\* ---- mailer.db: log_entry and get_logs under db._lock
\* The table is the variable logs; a row is (id, ts, by).  call holds the
\* clock datetime.utcnow() reads, the holder of db._lock, each writer thread's
\* position and the ts it has read, the argument of the get_logs call under
\* way (arg), and what the last finished get_logs returned (rows) for which
\* limit and from how many rows (asof).
Writers == {"w1", "w2"}

storeVars == <<tasks, tasks_lock, wk, req, hist, creds>>

\* s backwards
Reverse(s) == [i \in 1..Len(s) |-> s[Len(s) + 1 - i]]

\* SELECT ... ORDER BY id DESC LIMIT limit (ids grow with the position in logs)
select_desc(rows, limit) ==
    LET r == Reverse(rows)
    IN  SubSeq(r, 1, IF limit < Len(r) THEN limit ELSE Len(r))

InitLogStore ==
    /\ NoSending
    /\ call = [fn |-> "log_store", now |-> 1, lock |-> "none", calls |-> 0,
               th |-> [w \in Writers |-> [pc |-> "idle", ts |-> 0]],
               reading |-> FALSE, arg |-> 0, limit |-> 0, asof |-> 0, rows |-> << >>]

\* ts = datetime.utcnow().isoformat(); the clock may move on afterwards
LogEntryTs(w) ==
    /\ call.fn = "log_store" /\ call.th[w].pc = "idle"
    /\ call.calls < MaxAppends
    /\ \E tick \in 0..1 :
        call' = [call EXCEPT !.th[w] = [pc |-> "ts", ts |-> call.now],
                             !.now = @ + tick, !.calls = @ + 1]
    /\ UNCHANGED <<logs, storeVars>>

\* with _lock:
LogEntryLock(w) ==
    /\ call.fn = "log_store" /\ call.th[w].pc = "ts"
    /\ call.lock = "none"
    /\ call' = [call EXCEPT !.lock = w, !.th[w].pc = "locked"]
    /\ UNCHANGED <<logs, storeVars>>

\* INSERT INTO logs ...; commit; close; the lock is left
LogEntryInsert(w) ==
    /\ call.fn = "log_store" /\ call.th[w].pc = "locked"
    /\ logs' = Append(logs, [id |-> Len(logs) + 1, ts |-> call.th[w].ts, by |-> w])
    /\ call' = [call EXCEPT !.lock = "none", !.th[w].pc = "idle"]
    /\ UNCHANGED storeVars

\* get_logs(limit): with _lock:
GetLogsLock ==
    /\ call.fn = "log_store" /\ ~call.reading
    /\ call.lock = "none"
    /\ \E limit \in 0..MaxLimit :
        call' = [call EXCEPT !.lock = "reader", !.reading = TRUE, !.arg = limit]
    /\ UNCHANGED <<logs, storeVars>>

\* rows = cur.fetchall(); the lock is left; return rows
GetLogsFetch ==
    /\ call.fn = "log_store" /\ call.reading
    /\ call' = [call EXCEPT !.lock = "none", !.reading = FALSE,
                            !.rows = select_desc(logs, call.arg),
                            !.limit = call.arg, !.asof = Len(logs)]
    /\ UNCHANGED <<logs, storeVars>>

NextLogStore ==
    \/ \E w \in Writers : LogEntryTs(w)
    \/ \E w \in Writers : LogEntryLock(w)
    \/ \E w \in Writers : LogEntryInsert(w)
    \/ GetLogsLock
    \/ GetLogsFetch

SpecLogStore == InitLogStore /\ [][NextLogStore]_vars

\* ---- stylize_marketing_body
\* The text is kept character for character, as runs: a run is n times the
\* same character ("a" a letter, "." a sentence end, " " whitespace) or, for
\* "<b>", one tag.  No text over these characters has a greeting line, a
\* header line, a signature line or a placeholder label, so the substitutions
\* that remove those leave it as it is.
RunChars == {"a", ".", " ", "<b>"}
RunLens == {1, RunShort, RunLong}
Runs == [ch : RunChars, n : RunLens]

\* the product_name argument: None, the name of a catalog product (PRODUCTS,
\* every entry has image_url, pains and link), or another name
ProductArgs == {"None", "Class Tom", "other"}

\* len(s)
RECURSIVE run_len(_)
run_len(s) == IF s = << >> THEN 0 ELSE Head(s).n + run_len(Tail(s))

\* s[:k]
RECURSIVE run_prefix(_, _)
run_prefix(s, k) ==
    IF s = << >> \/ k <= 0 THEN << >>
    ELSE IF Head(s).n <= k THEN <<Head(s)>> \o run_prefix(Tail(s), k - Head(s).n)
    ELSE <<[Head(s) EXCEPT !.n = k]>>

RECURSIVE run_lstrip(_)
run_lstrip(s) == IF s # << >> /\ Head(s).ch = " " THEN run_lstrip(Tail(s)) ELSE s

RECURSIVE run_rstrip(_)
run_rstrip(s) ==
    IF s # << >> /\ s[Len(s)].ch = " " THEN run_rstrip(SubSeq(s, 1, Len(s) - 1)) ELSE s

run_strip(s) == run_rstrip(run_lstrip(s))

NotTagRun(r) == r.ch # "<b>"

\* re.sub(r'<[^>]+>', '', raw)
plain_text(raw) == SelectSeq(raw, NotTagRun)

\* re.split(r'(?<=[.!?])\s+', plain)[0]
first_sentence(plain) ==
    LET ends == { i \in 2..Len(plain) : plain[i].ch = " " /\ plain[i - 1].ch = "." }
    IN  IF ends = {} THEN plain
        ELSE SubSeq(plain, 1, (CHOOSE i \in ends : \A j \in ends : i <= j) - 1)

Ellipsis == <<[ch |-> ".", n |-> 3]>>

\* the problem statement before the product context is added, and whether
\* the text was cut on the way
problem_statement(raw) ==
    LET plain == plain_text(raw)
        first == run_strip(first_sentence(plain))
        p == IF first # << >> THEN first
             ELSE run_strip(run_prefix(plain, fallback_chars))
                  \o (IF run_len(plain) > fallback_chars THEN Ellipsis ELSE << >>)
    IN  IF run_len(p) > max_problem
        THEN [text |-> run_rstrip(run_prefix(p, cut_at)) \o Ellipsis, cut |-> TRUE]
        ELSE [text |-> p, cut |-> first = << >> /\ run_len(plain) > fallback_chars]

\* problem = f"{problem} (dash) for {product_name}."
with_product(problem, product_name) ==
    IF product_name = "None" THEN problem
    ELSE problem \o <<[ch |-> " - for ", n |-> ForLen],
                      [ch |-> product_name, n |-> ProductNameLen],
                      [ch |-> ".", n |-> 1]>>

\* media_src = product_img or default_gif
media_src(product_name, gif) ==
    IF product_name = "Class Tom" THEN "image_url"
    ELSE IF gif THEN "ANIMATED_GIF_URL" ELSE "None"

\* The fragment, block by block
stylize_marketing_body(raw_body, product_name, gif) ==
    IF raw_body = << >> THEN << >>
    ELSE LET raw == run_strip(raw_body)
             prod == product_name = "Class Tom"
         IN  <<[block |-> "problem",
                text |-> with_product(problem_statement(raw).text, product_name),
                cut |-> problem_statement(raw).cut],
               [block |-> "media", src |-> media_src(product_name, gif)],
               [block |-> "body",
                html |-> IF raw # plain_text(raw) THEN "as-is" ELSE "paragraphs"]>>
             \o (IF prod THEN <<[block |-> "pains"], [block |-> "cta", gif |-> gif]>>
                 ELSE << >>)

InitStylizer ==
    /\ NoSending
    /\ \E raw_body \in Strings(Runs, MaxRuns), product_name \in ProductArgs,
          gif \in BOOLEAN :
        call = [fn |-> "stylize_marketing_body", raw_body |-> raw_body,
                product_name |-> product_name, gif |-> gif,
                done |-> FALSE, html |-> << >>]

StylizeCall ==
    /\ call.fn = "stylize_marketing_body" /\ ~call.done
    /\ call' = [call EXCEPT !.done = TRUE,
                  !.html = stylize_marketing_body(call.raw_body, call.product_name, call.gif)]
    /\ UNCHANGED sendVars

NextStylizer == StylizeCall

SpecStylizer == InitStylizer /\ [][NextStylizer]_vars

\* ---- send_custom_task without a fragment: the generic HTML is made from the
\* preview HTML, which was written for the first recipient
PreviewPieces == {"Hi ", "Dear ", "Hello ", "Hi&nbsp;", "Dear&nbsp;", "Hello&nbsp;",
                  "Asha", ",", "x"}

\* generic_html.replace(f"{word}{first_recipient_name},", f"{word}{greeting_marker},")
ungreet(html, word, first_recipient_name) ==
    replace(html, <<word>> \o first_recipient_name \o <<",">>,
                  <<word>> \o greeting_marker \o <<",">>)

\* elif body_html: generic_html = body_html; the five replacements when the
\* first recipient has a name
generic_from_preview(body_html, first_recipient_name) ==
    IF first_recipient_name = << >> THEN body_html
    ELSE ungreet(ungreet(ungreet(ungreet(ungreet(body_html,
            "Hi ", first_recipient_name), "Dear ", first_recipient_name),
            "Hello ", first_recipient_name), "Hi&nbsp;", first_recipient_name),
            "Dear&nbsp;", first_recipient_name)

InitFromPreview ==
    /\ NoSending
    /\ \E body_html \in Strings(PreviewPieces, MaxPreviewLen) \ {<< >>},
          first \in Names, other \in Names :
        call = [fn |-> "generic_from_preview", body_html |-> body_html,
                first_recipient_name |-> first, r_name |-> other,
                pc |-> "prep", generic_html |-> << >>, final_html |-> << >>]

GenericFromPreview ==
    /\ call.fn = "generic_from_preview" /\ call.pc = "prep"
    /\ call' = [call EXCEPT !.pc = "loop",
                  !.generic_html = generic_from_preview(call.body_html, call.first_recipient_name)]
    /\ UNCHANGED sendVars

\* the pass of the loop for a recipient after the first
PersonalizeOther ==
    /\ call.fn = "generic_from_preview" /\ call.pc = "loop"
    /\ call' = [call EXCEPT !.pc = "sent",
                  !.final_html = personalize(call.generic_html, call.r_name)]
    /\ UNCHANGED sendVars

NextFromPreview ==
    \/ GenericFromPreview
    \/ PersonalizeOther

SpecFromPreview == InitFromPreview /\ [][NextFromPreview]_vars

\* ---- the recipient list from the preview page to the confirm request
\* A recipient is (email, name), each a sequence of pieces of text; " " is
\* whitespace, "\n" a line break, "||" the separator.
HandOffEmails == {<<"a@x.org">>, <<"b@x.org">>}
HandOffNames == {<< >>, <<"Asha">>, <<"Asha", "||", "Rao">>, <<"Asha", "\n", "Rao">>}

\* '\n'.join([f"{r['email']}||{r['name']}" for r in recipients])
RECURSIVE recipient_data(_)
recipient_data(recipients) ==
    IF recipients = << >> THEN << >>
    ELSE Head(recipients).email \o <<"||">> \o Head(recipients).name
         \o (IF Len(recipients) > 1 THEN <<"\n">> \o recipient_data(Tail(recipients))
             ELSE << >>)

\* s.split(sep): the parts between the separators
RECURSIVE split_on(_, _)
split_on(s, sep) ==
    IF \E i \in 1..Len(s) : s[i] = sep
    THEN LET i == CHOOSE i \in 1..Len(s) : s[i] = sep /\ \A k \in 1..(i - 1) : s[k] # sep
         IN  <<SubSeq(s, 1, i - 1)>> \o split_on(SubSeq(s, i + 1, Len(s)), sep)
    ELSE <<s>>

\* s.splitlines(): no line for an empty string or after a final line break
splitlines(s) ==
    LET parts == split_on(s, "\n")
    IN  IF parts[Len(parts)] = << >> THEN SubSeq(parts, 1, Len(parts) - 1) ELSE parts

\* for line in recipient_data_raw.splitlines(): skip blank lines, split on
\* '||', strip the email and the name
RECURSIVE decode_lines(_)
decode_lines(lines) ==
    IF lines = << >> THEN << >>
    ELSE IF strip(Head(lines)) = << >> THEN decode_lines(Tail(lines))
    ELSE LET parts == split_on(Head(lines), "||")
         IN  <<[email |-> strip(parts[1]),
                name |-> IF Len(parts) > 1 THEN strip(parts[2]) ELSE << >>]>>
             \o decode_lines(Tail(lines))

InitHandOff ==
    /\ NoSending
    /\ \E n \in 1..MaxHandOff :
        \E recipients \in [1..n -> [email : HandOffEmails, name : HandOffNames]] :
            call = [fn |-> "hand_off", recipients |-> recipients, pc |-> "preview",
                    recipient_data |-> << >>, decoded |-> << >>]

\* custom_send and greetings_send: the hidden field of the preview page
HandOffEncode ==
    /\ call.fn = "hand_off" /\ call.pc = "preview"
    /\ call' = [call EXCEPT !.pc = "confirm",
                            !.recipient_data = recipient_data(call.recipients)]
    /\ UNCHANGED sendVars

\* custom_start_send and greetings_start_send
HandOffDecode ==
    /\ call.fn = "hand_off" /\ call.pc = "confirm"
    /\ call' = [call EXCEPT !.pc = "decoded",
                            !.decoded = decode_lines(splitlines(call.recipient_data))]
    /\ UNCHANGED sendVars

NextHandOff ==
    \/ HandOffEncode
    \/ HandOffDecode

SpecHandOff == InitHandOff /\ [][NextHandOff]_vars

\* ---- the attachment files of two tasks started from the same confirm form
\* The preview step saved one file into a fresh directory and put its path
\* into the form; each submission of the form starts a task with that path.
\* call holds whether the file and its directory exist, and for each task the
\* worker's position, its recipients, and what each send found.
Submissions == {"t1", "t2"}

InitAttachments ==
    /\ NoSending
    /\ call = [fn |-> "attachments", file |-> TRUE, dir |-> TRUE,
               th |-> [t \in Submissions |->
                          [pc |-> "none", n |-> 0, i |-> 0, found |-> << >>]]]

\* custom_start_send / greetings_start_send: attachments = the paths of the
\* form; the worker thread is started
AttachSubmit(t) ==
    /\ call.fn = "attachments" /\ call.th[t].pc = "none"
    /\ \E n \in 1..MaxAttachRecipients :
        call' = [call EXCEPT !.th[t] = [pc |-> "loop", n |-> n, i |-> 1, found |-> << >>]]
    /\ UNCHANGED sendVars

\* send_email_with_attachments(..., attachments=attachments): open(path, 'rb')
\* for every path; a file that cannot be read makes the send return
\* (False, 'Attachment ... error'); otherwise SMTP decides
AttachSend(t) ==
    /\ call.fn = "attachments" /\ call.th[t].pc = "loop"
    /\ call.th[t].i <= call.th[t].n
    /\ \E smtp_ok \in BOOLEAN :
        call' = [call EXCEPT !.th[t].i = @ + 1,
                    !.th[t].found = Append(@, [present |-> call.file,
                                               ok |-> call.file /\ smtp_ok])]
    /\ UNCHANGED sendVars

\* after the loop: os.remove(p) and shutil.rmtree(os.path.dirname(p),
\* ignore_errors=True), whatever other task uses the path
AttachCleanup(t) ==
    /\ call.fn = "attachments" /\ call.th[t].pc = "loop"
    /\ call.th[t].i > call.th[t].n
    /\ call' = [call EXCEPT !.file = FALSE, !.dir = FALSE, !.th[t].pc = "finish"]
    /\ UNCHANGED sendVars

\* status = 'done'
AttachDone(t) ==
    /\ call.fn = "attachments" /\ call.th[t].pc = "finish"
    /\ call' = [call EXCEPT !.th[t].pc = "exit"]
    /\ UNCHANGED sendVars

NextAttachments ==
    \/ \E t \in Submissions : AttachSubmit(t)
    \/ \E t \in Submissions : AttachSend(t)
    \/ \E t \in Submissions : AttachCleanup(t)
    \/ \E t \in Submissions : AttachDone(t)

SpecAttachments == InitAttachments /\ [][NextAttachments]_vars

\* ------------------------------------------------------------------ claims
Created == { t \in TaskIds : tasks[t].status # "none" }

\* The recipients of t the worker is through with
Finished(t) == { j \in 1..Len(hist[t]) : j < wk[t].i \/ wk[t].pc = "exit" }

\* C1: in every reachable state of every task, sent + failed <= total.
C1_CountersWithinTotal ==
    \A t \in Created : tasks[t].sent + tasks[t].failed <= tasks[t].total

\* C2: whenever a task's status is done, sent + failed = total, total is the
\* number of recipients handed to the worker, and every recipient was counted
\* exactly once, as sent or as failed.
C2_DoneCountsEveryRecipient ==
    \A t \in Created : tasks[t].status = "done" =>
        /\ tasks[t].total = wk[t].n
        /\ tasks[t].sent + tasks[t].failed = tasks[t].total
        /\ Len(hist[t]) = wk[t].n
        /\ \A j \in 1..Len(hist[t]) : hist[t][j].incS + hist[t][j].incF = 1

\* C3: a task's status only moves forward along
\* pending -> running -> (done | error); it never goes back and a done or
\* error status never changes again.
StatusSteps == { <<"none", "pending">>, <<"pending", "running">>,
                 <<"running", "done">>, <<"running", "error">> }

C3_StatusOnlyForward ==
    [][\A t \in TaskIds : \/ tasks'[t].status = tasks[t].status
                          \/ <<tasks[t].status, tasks'[t].status>> \in StatusSteps]_vars

C3_Witness ==
    \E t \in TaskIds : tasks[t].status = "error" /\ wk[t].pc = "exit" /\ wk[t].i > 1

\* C4: with the transport credentials missing, a bulk-send request is
\* answered with the failure at once and no task entry is created (so none
\* is ever running, done or error).
C4_NoTaskWithoutCredentials ==
    ~creds => /\ \A t \in TaskIds : tasks[t].status = "none"
              /\ req.resp # "enqueued"

\* C5: a delivery failure for one recipient (the send operation returns
\* failure or raises) adds one to failed exactly once for that recipient and
\* nothing to sent, and it never takes the worker out of the loop: no task
\* ends in error with a delivery failure as the cause.
DeliveryFailed(e) == e.res \in {"fail", "raise"}

C5_DeliveryFailureCountedOnce ==
    \A t \in Created :
        /\ \A j \in 1..Len(hist[t]) : DeliveryFailed(hist[t][j]) =>
              /\ hist[t][j].incS = 0
              /\ hist[t][j].incF <= 1
              /\ (j \in Finished(t) /\ tasks[t].status # "error") => hist[t][j].incF = 1
        /\ tasks[t].error \notin {"trace: send"}

\* The rows of the log table written for recipient j of task t
Rows(t, j) == SelectSeq(logs, LAMBDA row : row.task = t /\ row.i = j)

Skipped(t) == { j \in Finished(t) : wk[t].kind = "custom" /\ hist[t][j].what = "skip" }

\* C6 (as claimed): for a recipient whose personalized HTML fails the
\* validator the custom worker attempts no delivery, adds exactly one to
\* failed, appends a 'skipped-empty-body' row and goes on with the next
\* recipient.
C6_SkipLoggedAlways ==
    \A t \in Created :
        /\ \A j \in Skipped(t) :
              /\ hist[t][j].res = "none"
              /\ hist[t][j].incF = 1 /\ hist[t][j].incS = 0
              /\ Rows(t, j) = << [task |-> t, i |-> j, status |-> "skipped-empty-body"] >>
        /\ (wk[t].exc # "none" /\ hist[t] # << >>) => hist[t][Len(hist[t])].what # "skip"

\* C6 (amended): ... appends a 'skipped-empty-body' row unless the log store
\* call raises, in which case no row is written for the recipient; in both
\* cases the loop goes on with the next recipient.
C6_SkipCountedAndLogAttempted ==
    \A t \in Created :
        /\ \A j \in Skipped(t) :
              /\ hist[t][j].res = "none"
              /\ hist[t][j].incF = 1 /\ hist[t][j].incS = 0
              /\ Rows(t, j) = IF hist[t][j].logRaised THEN << >>
                              ELSE << [task |-> t, i |-> j, status |-> "skipped-empty-body"] >>
        /\ (wk[t].exc # "none" /\ hist[t] # << >>) => hist[t][Len(hist[t])].what # "skip"

C6_Witness ==
    \E t \in Created : \E j \in Skipped(t) :
        /\ hist[t][j].logRaised
        /\ Len(hist[t]) > j
        /\ tasks[t].status = "done"

Escaped(t) == wk[t].exc # "none"

C8_FaultEndsTask ==
    /\ [](\A t \in Created :
            /\ Escaped(t) =>
                  /\ wk[t].pc \in {"except", "except_locked", "exit"}
                  /\ tasks[t].status \in {"running", "error"}
                  /\ wk[t].pc = "exit" => /\ tasks[t].status = "error"
                                          /\ tasks[t].error = wk[t].exc
                  /\ \A j \in 1..Len(hist[t]) : hist[t][j].r <= wk[t].i
            /\ tasks[t].status = "error" => Escaped(t))
    /\ [][\A t \in Created : Escaped(t) =>
            /\ hist'[t] = hist[t]
            /\ wk'[t].i = wk[t].i
            /\ Rows(t, wk[t].i)' = Rows(t, wk[t].i)
            /\ tasks'[t].sent = tasks[t].sent /\ tasks'[t].failed = tasks[t].failed
            /\ wk'[t].pc \in {"except", "except_locked", "exit"}]_vars

C8_Witness ==
    \E t \in Created :
        /\ tasks[t].status = "error" /\ tasks[t].error = "trace: log_entry"
        /\ wk[t].pc = "exit"
        /\ wk[t].i < wk[t].n

\* C9: within one task the recipients are processed strictly in the order of
\* the list: the k-th attempt (or skip) is for position k, each position is
\* attempted at most once, and the attempt for a position is complete (its
\* result is counted) before the next one begins.
Complete(e) == (e.what = "skip" \/ e.res # "none") /\ e.incS + e.incF >= 1

C9_InputOrder ==
    \A t \in Created :
        /\ Len(hist[t]) <= wk[t].n
        /\ Len(hist[t]) \in {wk[t].i - 1, wk[t].i} \/ wk[t].pc \in {"start", "start_locked"}
        /\ \A k \in 1..Len(hist[t]) :
              /\ hist[t][k].r = k
              /\ k < Len(hist[t]) => Complete(hist[t][k])

C9_Witness ==
    \E t \in Created : Len(hist[t]) >= 2 /\ hist[t][2].res # "none"

\* C10: a worker never holds tasks_lock while it is inside the send call or
\* the log store call: it holds the lock only for one read or write of task
\* fields; and every read of a task's status and counters by the status,
\* progress and final handlers happens with the lock held.
LockedPcs == {"start_locked", "count_locked", "h_count_locked", "finish_locked", "except_locked"}

C10_LockDiscipline ==
    /\ \A t \in TaskIds : (tasks_lock = ByWorker(t)) <=> (wk[t].pc \in LockedPcs)
    /\ (tasks_lock = ByRequest) <=> (req.pc \in {"creating", "locked"})
    /\ ~req.unlocked

\* C11: every created task id has exactly one worker, started when the id is
\* created; after that the entry of a task is written only by its own worker
\* (holding the lock), a step of one worker leaves every other task and worker
\* alone, and the progress, status, final and debug handlers change no task.
C11_OnlyOwnWorkerWrites ==
    /\ [](\A t \in TaskIds : (wk[t].pc = "none") <=> (tasks[t].status = "none"))
    /\ [][\A t \in TaskIds :
            /\ tasks'[t] # tasks[t] =>
                 \/ /\ tasks[t].status = "none" /\ req.pc = "creating"
                    /\ wk[t].pc = "none" /\ wk'[t].pc = "start"
                 \/ /\ tasks[t].status # "none" /\ tasks_lock = ByWorker(t)
                    /\ wk'[t] # wk[t] /\ req' = req
            /\ wk'[t] # wk[t] =>
                 /\ \A u \in TaskIds \ {t} : tasks'[u] = tasks[u] /\ wk'[u] = wk[u]
                 /\ wk[t].pc = "none" => (req.pc = "creating" /\ req' # req)
            /\ (req' # req /\ req.pc # "creating") => tasks' = tasks /\ wk' = wk]_vars

\* Both tasks are being sent, one has counted a recipient, and a handler is
\* about to render what it read
C11_Witness ==
    /\ \A t \in TaskIds : tasks[t].status = "running"
    /\ \E t \in TaskIds : tasks[t].sent + tasks[t].failed > 0
    /\ req.pc = "render"

\* The name the worker puts in for a recipient
DisplayName(nm) == IF nm = << >> THEN Educator ELSE nm

\* C12 (as stated): for any generic HTML with a marker and any recipient, the
\* HTML sent has no occurrence of either marker and at least one occurrence
\* of the display name ('Educator' for an empty name).
C12_NoMarkerLeft ==
    (call.fn = "personalize" /\ call.returned) =>
        /\ ~Occurs(call.final_html, RECIPIENT_NAME)
        /\ ~Occurs(call.final_html, greeting_marker)
        /\ Occurs(call.final_html, DisplayName(call.name))

\* The name and the marker m share text: one contains the other, or the name
\* begins with the end of m, or ends with the beginning of m.
Overlap(nm, m) ==
    \/ Occurs(nm, m)
    \/ Occurs(m, nm)
    \/ \E k \in 1..Len(nm) :
        /\ k <= Len(m)
        /\ \/ SubSeq(nm, 1, k) = SubSeq(m, Len(m) - k + 1, Len(m))
           \/ SubSeq(nm, Len(nm) - k + 1, Len(nm)) = SubSeq(m, 1, k)

\* C12 (amended): the same, for every recipient whose display name shares no
\* text with either marker.
C12_NoMarkerLeftForPlainNames ==
    (/\ call.fn = "personalize" /\ call.returned
     /\ ~Overlap(DisplayName(call.name), RECIPIENT_NAME)
     /\ ~Overlap(DisplayName(call.name), greeting_marker)) =>
        /\ ~Occurs(call.final_html, RECIPIENT_NAME)
        /\ ~Occurs(call.final_html, greeting_marker)
        /\ Occurs(call.final_html, DisplayName(call.name))

\* A '[[RECIPIENT_NAME]]' placeholder next to other text was filled in, with
\* the generic name and with a name of the recipient's own
C12_Witness ==
    /\ call.fn = "personalize" /\ call.returned
    /\ Occurs(call.generic_html, RECIPIENT_NAME)
    /\ Occurs(call.generic_html, <<"x">>)
    /\ call.name \in {<< >>, <<"x", "x">>}
    /\ Occurs(call.final_html, DisplayName(call.name))

\* A line or paragraph of the HTML that opens with a greeting word
HasGreetingLine(html) ==
    \E i \in 1..Len(html) :
        html[i] = "Hi " /\ (i = 1 \/ html[i - 1] \in {"\n", "<p>", "<div>"})

\* html opens with the injected greeting for the recipient name nm
OpensWithGreeting(html, nm) ==
    LET g == <<"<div>">> \o greeting_html(DisplayName(nm))
    IN  Len(html) >= Len(g) /\ SubSeq(html, 1, Len(g)) = g

\* C13: what the worker sends is what the preview showed, up to the name: the
\* first recipient's HTML has a greeting line exactly when the preview had
\* one, and for a fragment with no greeting and no placeholder both the
\* preview and every sent message open with 'Hi <name or Educator>,', also
\* when the first recipient has no name.
C13_SentGreetingAsPreviewed ==
    (call.fn = "custom" /\ call.pc = "done") =>
        /\ HasGreetingLine(call.fragment_preview) <=> HasGreetingLine(call.sent[1])
        /\ ~fragment_has_greeting(call.body_fragment) =>
             /\ OpensWithGreeting(call.fragment_preview, call.recipients[1])
             /\ \A j \in 1..Len(call.recipients) :
                    OpensWithGreeting(call.sent[j], call.recipients[j])

\* The validator has answered for the text it was given
Validated == call.fn = "has_meaningful_body" /\ call.returned

WhitespaceOnly(h) == h # << >> /\ \A i \in 1..Len(h) : h[i] \in Spaces

\* Length of a sentence of the words ws written with single spaces
RECURSIVE SentenceLen(_)
SentenceLen(ws) ==
    IF ws = << >> THEN 0
    ELSE TokLen[Head(ws)] + (IF Len(ws) > 1 THEN 1 ELSE 0) + SentenceLen(Tail(ws))

\* C14 (as stated): false for the empty string, every whitespace-only string,
\* '<p>Hi John,</p>' and every 4-word sentence; true for every 6-word plain
\* sentence and every HTML paragraph whose text is 40 characters long and has
\* 5 words.
C14_ListedCases ==
    Validated =>
        /\ call.html_fragment = << >> => ~call.result
        /\ WhitespaceOnly(call.html_fragment) => ~call.result
        /\ call.html_fragment = <<"<p>", "Hi", " ", "John,", "</p>">> => ~call.result
        /\ (call.shape # "other" /\ Len(call.words) = 4) => ~call.result
        /\ (call.shape = "plain" /\ Len(call.words) = 6) => call.result
        /\ (call.shape = "paragraph" /\ Len(call.words) = 5
               /\ SentenceLen(call.words) = 40) => call.result

\* The words have a letter or digit among them and no boilerplate phrase
Wordy(ws) ==
    /\ \E i \in 1..Len(ws) : ws[i] \notin Symbols
    /\ \A i \in 1..Len(ws) : ws[i] # "unsubscribe"

\* C14 (amended): the same false cases; true for every 6-word plain sentence
\* of at least 30 characters and every 40-character 5-word HTML paragraph,
\* when the text has a letter or digit and no boilerplate phrase.
C14_ListedCasesLongEnough ==
    Validated =>
        /\ call.html_fragment = << >> => ~call.result
        /\ WhitespaceOnly(call.html_fragment) => ~call.result
        /\ call.html_fragment = <<"<p>", "Hi", " ", "John,", "</p>">> => ~call.result
        /\ (call.shape # "other" /\ Len(call.words) = 4) => ~call.result
        /\ (call.shape = "plain" /\ Len(call.words) = 6 /\ Wordy(call.words)
               /\ SentenceLen(call.words) >= 30) => call.result
        /\ (call.shape = "paragraph" /\ Len(call.words) = 5 /\ Wordy(call.words)
               /\ SentenceLen(call.words) = 40) => call.result

\* A 6-word plain sentence of exactly 30 characters was accepted
C14_Witness ==
    /\ Validated /\ call.shape = "plain" /\ Len(call.words) = 6
    /\ Wordy(call.words) /\ SentenceLen(call.words) = 30
    /\ call.result

\* C15: has_meaningful_body(h) is true exactly when the text left after the
\* tags, the boilerplate and a greeting-only content are removed and the
\* whitespace is collapsed has at least 30 characters, at least 5 words and
\* a letter or digit; it is false for the empty h.
C15_ExactlyWhenLongEnough ==
    Validated =>
        LET text == remaining_text(call.html_fragment)
        IN  /\ call.result <=>
                 /\ len(text) >= 30
                 /\ split_count(text) >= 5
                 /\ \E i \in 1..Len(text) : text[i] \notin Symbols
            /\ call.html_fragment = << >> => ~call.result

\* A padded text whose remaining text is one short of 30 characters was
\* rejected although it has 6 words
C15_Witness ==
    /\ Validated /\ call.shape = "padded"
    /\ len(remaining_text(call.html_fragment)) = 29
    /\ split_count(remaining_text(call.html_fragment)) = 6
    /\ ~call.result

\* The table of the call has been read
Extracted == call.fn = "recipients" /\ call.returned

\* The cells of the address column, top to bottom
AddressCells == [i \in 1..Len(call.df.rows) |-> call.df.rows[i][call.email_col]]

\* C16: the extractor returns the values of the address column trimmed,
\* without null values and without empty strings, each value once (compared
\* case-sensitively after trimming), in the order of first appearance.
C16_ExtractorCleansColumn ==
    Extracted =>
        LET out == call.emails
            pos(v) == CHOOSE i \in 1..Len(AddressCells) :
                        /\ AddressCells[i] # NaN /\ strip(AddressCells[i]) = v
                        /\ \A j \in 1..(i - 1) :
                               AddressCells[j] = NaN \/ strip(AddressCells[j]) # v
        IN  /\ \A k \in 1..Len(out) :
                 /\ out[k] # NaN /\ out[k] # <<"nan">>
                 /\ out[k] # << >>
                 /\ strip(out[k]) = out[k]
                 /\ \E i \in 1..Len(AddressCells) :
                        AddressCells[i] # NaN /\ strip(AddressCells[i]) = out[k]
            /\ \A i \in 1..Len(AddressCells) :
                 (AddressCells[i] # NaN /\ strip(AddressCells[i]) # << >>) =>
                     \E k \in 1..Len(out) : out[k] = strip(AddressCells[i])
            /\ \A k, l \in 1..Len(out) : k < l => out[k] # out[l] /\ pos(out[k]) < pos(out[l])

\* The table has a name column: the column that is not the address column
HasNameColumn == call.df.columns[2] # <<"Phone">>
NameColumn == 3 - call.email_col

\* The table of the example: columns [Full Name, Email Address] and the row
\* (Asha, a@x) twice
ExampleTable ==
    [columns |-> << <<"Full", " ", "Name">>, <<"Email", " ", "Address">> >>,
     rows |-> << << <<"Asha">>, <<"a@x">> >>, << <<"Asha">>, <<"a@x">> >> >>]

\* C17: with a name column, the name of each extracted email is
\* the name-column value of the first row that has a cell containing that
\* email as a substring, and '' when no row matches; the example table gives
\* the single recipient (a@x, Asha).
C17_NameOfFirstRowContaining ==
    (Extracted /\ HasNameColumn) =>
        /\ \A k \in 1..Len(call.recipients) :
             LET e == call.recipients[k].email
                 rows == { i \in 1..Len(call.df.rows) :
                             \E c \in 1..2 : Occurs(Str(call.df.rows[i][c]), e) }
             IN  call.recipients[k].name =
                    IF rows = {} THEN << >>
                    ELSE Str(call.df.rows[CHOOSE i \in rows : \A j \in rows : i <= j][NameColumn])
        /\ call.df = ExampleTable =>
             call.recipients = << [email |-> <<"a@x">>, name |-> <<"Asha">>] >>

\* How often p occurs in s
Occurrences(s, p) ==
    Cardinality({ i \in 1..(Len(s) - Len(p) + 1) : SubSeq(s, i, i + Len(p) - 1) = p })

\* C18: for any skeleton with a body-class cell and any fragment, the output
\* contains the fragment exactly once and the header and footer cells are
\* unchanged, also with several body cells, a nested table in the body cell,
\* and backslash or group-reference sequences in the fragment.
C18_FragmentExactlyOnce ==
    (call.fn = "inject" /\ call.returned /\ call.cells >= 1) =>
        /\ Occurrences(call.html, call.fragment) = 1
        /\ Occurrences(call.html, HeaderCell) = 1
        /\ call.footer => Occurrences(call.html, FooterCell) = 1

\* C19: when the inliner is unavailable or throws, inline_css does not raise,
\* the page is left unchanged, the caller continues, and the caller surfaces
\* a warning (asked here only of the preview handlers, which have a page to
\* show the warning on).
C19_InlinerFailureWarned ==
    (/\ call.fn = "inline_css" /\ call.pc = "continued"
     /\ call.premailer \in {"absent", "throws"} /\ call.html_in # << >>) =>
        /\ ~call.raised
        /\ call.html = call.html_in
        /\ call.caller \in FlashingCallers => call.flashed

\* C20: when the LLM is unavailable or its call fails, a custom or greeting
\* compose request ends with the preview, the body fragment of the preview is
\* the local formatter's or the stylizer's, and the request does not raise,
\* with or without a subject from the user.
C20_ComposeSurvivesLlmFailure ==
    (call.fn = "compose" /\ call.pc = "done" /\ call.llm \in {"absent", "raises"}) =>
        /\ call.resp = "preview"
        /\ call.fragment \in {"local_formatter", "stylizer"}
        /\ call.subj \in {"user", "default"}

\* custom_send went through the unbound subject into the outer except clause
\* and still showed the preview
C20_Witness ==
    /\ call.fn = "compose" /\ call.pc = "done" /\ call.handler = "custom_send"
    /\ call.llm = "raises" /\ ~call.user_subject
    /\ call.fragment = "stylizer" /\ call.resp = "preview"

\* C21: what get_logs(limit) returned has at most limit rows, they are the
\* rows appended last before the read, newest first, and their timestamps
\* never increase from one row to the next, also with two threads inside
\* log_entry; the table only ever grows by one row at its end.
C21_NewestFirstAppendOnly ==
    /\ [](call.fn = "log_store" =>
            /\ Len(call.rows) <= call.limit
            /\ call.rows = select_desc(SubSeq(logs, 1, call.asof), call.limit)
            /\ \A i \in 1..(Len(call.rows) - 1) : call.rows[i].ts >= call.rows[i + 1].ts)
    /\ [][logs' # logs => (Len(logs') = Len(logs) + 1 /\ SubSeq(logs', 1, Len(logs)) = logs)]_vars

\* s ends with three dots
EndsWithEllipsis(s) ==
    \E k \in 1..Len(s) :
        /\ \A i \in k..Len(s) : s[i].ch = "."
        /\ run_len(SubSeq(s, k, Len(s))) >= 3

\* C22: the problem statement in the fragment has at most 240 characters for
\* every text and every product name, and ends with an ellipsis when the
\* text was cut.
C22_ProblemAtMost240 ==
    (call.fn = "stylize_marketing_body" /\ call.done /\ call.html # << >>) =>
        /\ run_len(call.html[1].text) <= max_problem
        /\ call.html[1].cut => EndsWithEllipsis(call.html[1].text)

\* C23: the fragment has an image block only when the product has an image
\* or the fallback image URL is set.
C23_MediaOnlyIfConfigured ==
    (call.fn = "stylize_marketing_body" /\ call.done) =>
        \A i \in 1..Len(call.html) :
            call.html[i].block = "media" =>
                (call.product_name = "Class Tom" \/ call.gif)

\* C24: the first applicable rule is used (the body cell's content becomes
\* the fragment; else the [[AI_BODY]] token becomes the fragment; else a body
\* row with the fragment is put before the first closing table tag), and
\* whichever rule it was, for every skeleton, with or without a closing table
\* tag, the composed HTML contains the fragment.
C24_FragmentAlwaysInjected ==
    (call.fn = "inject" /\ call.returned) =>
        LET s == call.structure_html
            f == call.fragment
            cell == <<BodyOpen>> \o f \o <<CellClose>>
        IN  /\ has_body_cell(s) => Occurs(call.html, cell)
            /\ (~has_body_cell(s) /\ Occurs(s, <<"[[AI_BODY]]">>)) =>
                 (call.html = replace(s, <<"[[AI_BODY]]">>, f) /\ ~Occurs(call.html, cell))
            /\ (~has_body_cell(s) /\ ~Occurs(s, <<"[[AI_BODY]]">>) /\ Occurs(s, <<"</table>">>)) =>
                 Occurs(call.html, <<"<tr>">> \o cell \o <<"</tr>", "</table>">>)
            /\ Occurs(call.html, f)

\* C25: for each recipient a logging worker (custom, greeting, product) is
\* through with (it skipped the recipient or called the send operation), exactly one row was appended to the log, and the row agrees
\* with the counter that was incremented for the recipient: 'sent' with sent,
\* 'failed: ...' or 'skipped-empty-body' with failed; a recipient whose send
\* succeeded is neither logged nor counted as failed.
C25_OneLogRowPerRecipient ==
    \A t \in Created : wk[t].kind # "generic" =>
        \A j \in 1..Len(hist[t]) :
            /\ (j \in Finished(t) /\ hist[t][j].what # "fault") =>
                 /\ Len(Rows(t, j)) = 1
                 /\ IF Rows(t, j)[1].status = "sent"
                    THEN hist[t][j].incS = 1 /\ hist[t][j].incF = 0
                    ELSE hist[t][j].incS = 0 /\ hist[t][j].incF = 1
            /\ hist[t][j].res = "ok" =>
                 /\ hist[t][j].incF = 0
                 /\ \A k \in 1..Len(Rows(t, j)) : Rows(t, j)[k].status = "sent"

\* The custom and the greeting worker delete the attachments after the loop
CleaningWorkers == { t \in Created : wk[t].kind \in {"custom", "greeting"} }

\* C26: in the custom and greeting workers the deletion of the attachments is
\* attempted after the loop whatever the sends returned: never before every
\* recipient has been processed, always before the status becomes done, and
\* whether the deletion worked or failed changes nothing of the task's
\* counters or of its final status.
C26_CleanupAfterLoopBeforeDone ==
    /\ [](\A t \in CleaningWorkers :
            /\ wk[t].cleanup # "none" =>
                 /\ wk[t].i > wk[t].n /\ Len(hist[t]) = wk[t].n
                 /\ \A j \in 1..Len(hist[t]) : hist[t][j].incS + hist[t][j].incF >= 1
                 /\ tasks[t].status \in {"running", "done"}
                 /\ wk[t].pc = "exit" => tasks[t].status = "done"
            /\ tasks[t].status = "done" => wk[t].cleanup # "none")
    /\ [][\A t \in TaskIds :
            wk'[t].cleanup # wk[t].cleanup =>
                (tasks' = tasks /\ wk[t].pc = "cleanup" /\ wk'[t].pc = "finish")]_vars

\* A task is done although one send failed and the deletion failed
C26_Witness ==
    \E t \in CleaningWorkers :
        /\ tasks[t].status = "done" /\ wk[t].cleanup = "failed"
        /\ \E j \in 1..Len(hist[t]) : hist[t][j].res = "fail"

\* C27: a task that was created (pending or running) reaches done or error,
\* and once it is done or error its status never changes: with fair
\* scheduling and external calls that return or raise no task stays pending
\* or running forever, and nothing takes a task out of its final status.
C27_EveryTaskEnds ==
    /\ (tasks["t1"].status \in {"pending", "running"}) ~> (tasks["t1"].status \in {"done", "error"})
    /\ [][tasks["t1"].status \in {"done", "error"} =>
            tasks'["t1"].status = tasks["t1"].status]_vars

\* The worker has returned after a loop over at least one recipient, the task is done
C27_Witness ==
    /\ tasks["t1"].status = "done" /\ wk["t1"].pc = "exit"
    /\ wk["t1"].n >= 1 /\ Len(hist["t1"]) = wk["t1"].n

\* C28: what is sent to a recipient after the first does not contain the
\* first recipient's name carried over from the preview HTML, in whichever
\* greeting form and at whichever place the preview had the name (the
\* recipient's own display name is another one).
C28_FirstNameNotCarriedOver ==
    (/\ call.fn = "generic_from_preview" /\ call.pc = "sent"
     /\ call.first_recipient_name # << >>
     /\ DisplayName(call.r_name) # call.first_recipient_name) =>
        ~Occurs(call.final_html, call.first_recipient_name)

\* C29: decoding the 'email||name' lines of the preview page gives back the
\* recipient list: the same (email, name) pairs, as many and in the same
\* order, for every list, also with names that are empty or contain '||' or
\* a line break.
C29_RecipientsSurviveHandOff ==
    (call.fn = "hand_off" /\ call.pc = "decoded") => call.decoded = call.recipients

\* C30: with two tasks that carry the same attachment paths, no task deletes
\* the file or its directory while the other still has recipients to
\* process: every send of every task finds the attachment files present.
C30_AttachmentsPresentAtEverySend ==
    /\ [](call.fn = "attachments" =>
            \A t \in Submissions : \A j \in 1..Len(call.th[t].found) :
                call.th[t].found[j].present)
    /\ [][(call.fn = "attachments" /\ call.file /\ ~call'.file) =>
            \A t \in Submissions :
                call.th[t].pc = "loop" => call.th[t].i > call.th[t].n]_vars

====
